---------------------------- MODULE Spec2Model ----------------------------
(***************************************************************************)
(* Model of package i2cm: the I2C transaction executors (8 bit and 16 bit  *)
(* register addresses) on top of the four-operation bus master, and the    *)
(* 24Cxx EEPROM driver on top of the transactors.                          *)
(*                                                                         *)
(*   SpecTx  one transaction through I2CMasterTransact8x8 or               *)
(*           transactor16x8.Transact16x8, one step per bus master call,    *)
(*           every call of the bus master free to report a fault.  The     *)
(*           executors keep no state between calls, so a behaviour is one  *)
(*           call, from its arguments to its return.                       *)
(*   SpecEE  the EEPROM driver ee24 (NewEEPROM24, Seek, Write), one step   *)
(*           per transaction of the Write loop.                            *)
(***************************************************************************)
EXTENDS Integers, Sequences, FiniteSets, TLC

(***************************************************************************)
(* Bounds of the model.                                                    *)
(***************************************************************************)
\* longest write buffer handed to a transaction
MaxW == 2
\* longest read buffer handed to a transaction
MaxR == 2

(***************************************************************************)
(* Values.                                                                 *)
(***************************************************************************)
\* data bytes the caller writes and the device returns
DataBytes == {171, 254}

\* 8 bit register addresses used by the calls
RegAddrs8 == {52, 255}

\* 16 bit register addresses used by the calls (0x1234, 0x00ff)
RegAddrs16 == {4660, 255}

\* device addresses: Addr7 is a uint8, Addr10 a uint16
Addrs == { [kind |-> "Addr7", raw |-> 80],
           [kind |-> "Addr7", raw |-> 255],
           [kind |-> "Addr10", raw |-> 80] }

\* error.go: the two package errors; "BusFault" stands for any other error
\* a bus master returns, "ErrAddrLen" for the errors.New of the width check
NACKReceived == "NACKReceived"
NoSuchDevice == "NoSuchDevice"

\* what one call of the bus master may return as its error
BusOutcomes == {"nil", NACKReceived, "BusFault"}

\* sequences over S of length 0..n
RECURSIVE SeqsUpTo(_, _)
SeqsUpTo(S, n) ==
  IF n = 0 THEN { <<>> }
  ELSE LET shorter == SeqsUpTo(S, n - 1)
       IN  shorter \cup { Append(s, x) : s \in { t \in shorter : Len(t) = n - 1 }, x \in S }

Zeros(n) == [i \in 1..n |-> 0]

(***************************************************************************)
(* addr.go                                                                 *)
(***************************************************************************)
GetBaseAddr(a) ==
  IF a.kind = "Addr7" THEN a.raw % 128 ELSE a.raw % 1024

GetAddrLen(a) ==
  IF a.kind = "Addr7" THEN 7 ELSE 10

(***************************************************************************)
(* transaction.go: helpers of I2CMasterTransact8x8                         *)
(***************************************************************************)
\* addrb := uint8(addr.GetBaseAddr() << 1)
AddrByte(a) == (GetBaseAddr(a) * 2) % 256

\* addrb | 0x01
ReadAddrByte(a) ==
  IF AddrByte(a) % 2 = 1 THEN AddrByte(a) ELSE AddrByte(a) + 1

\* mutant: a NACK on the address byte is passed on as it is
AddrErr_m(e) == e

\* if err == NACKReceived { return NoSuchDevice }; return err
AddrErr(e) == IF e = NACKReceived THEN NoSuchDevice ELSE e

\* mutant: every byte is read with an acknowledge
AckFor_m(i, n) == TRUE

\* ack := true; if i == len(r)-1 { ack = false }      (i counts from 0)
AckFor(i, n) == i # n - 1

\* mutant: the outcome of the stop always wins
AfterStop_m(inner, stoperr) == stoperr

\* if err != nil { m.Stop() } else { err = m.Stop() }
AfterStop(inner, stoperr) == IF inner # "nil" THEN inner ELSE stoperr

\* mutant: the read part is never performed
AfterWrites_m(n) == "stop"

\* the step after the write loop: the read part is only performed if desired
AfterWrites(n) == IF n > 0 THEN "rstart" ELSE "stop"

(***************************************************************************)
(* transaction.go: helpers of transactor16x8.Transact16x8                  *)
(***************************************************************************)
\* addrhi := uint8(regaddr >> 8)
Hi8(ra) == (ra \div 256) % 256

\* uint8(regaddr)
Lo8(ra) == ra % 256

\* mutant: the address low byte goes after the caller's bytes
WBuf_m(ra, wb) == wb \o <<Lo8(ra)>>

\* wbuf = append(wbuf, uint8(regaddr)); wbuf = append(wbuf, w...)
WBuf(ra, wb) == <<Lo8(ra)>> \o wb

\* mutant: the count is decremented even when it is zero
AdjustNw_neg(n) == n - 1

\* mutant: the address low byte stays in the count
AdjustNw_m(n) == n

\* if nw > 0 { nw-- }
AdjustNw(n) == IF n > 0 THEN n - 1 ELSE n

VARIABLES
  pc,       \* where the running transaction stands
  call,     \* the call in progress as the caller made it
  addr,     \* I2CMasterTransact8x8: addr
  regaddr,  \* I2CMasterTransact8x8: regaddr
  w,        \* I2CMasterTransact8x8: w
  r,        \* I2CMasterTransact8x8: r
  nw,       \* I2CMasterTransact8x8: nw
  nr,       \* I2CMasterTransact8x8: nr
  err,      \* I2CMasterTransact8x8: err
  log,      \* every call made on the bus master, in order, with its outcome
  cw,       \* Transact16x8: the caller's slice w
  res       \* what the call returned to its caller

txvars == <<pc, call, addr, regaddr, w, r, nw, nr, err, log, cw, res>>

VARIABLES
  conf,     \* ee24.conf: [Size, PageSize]
  devaddr,  \* ee24.devaddr
  p,        \* ee24.p, the file pointer
  newerr,   \* what NewEEPROM24 returned as its error ("nil": a driver)
  epc,      \* where the running call of the driver stands
  b,        \* Write: b, the bytes still to write
  origsize, \* Write: origsize
  trs,      \* the transactions the running call issued, in order
  eres,     \* what the call of the driver returned: [n, err], and of which call
  seek      \* Seek: offset, whence, and the file pointer when it was called

eevars == <<conf, devaddr, p, newerr, epc, b, origsize, trs, eres, seek>>

VARIABLES
  m,        \* the bus master handed to NewTransactor: the transaction
            \* operations it implements itself, besides I2CMaster
  nlog      \* every call of a transaction operation of m itself, in order

capvars == <<m, nlog>>

VARIABLES
  mem,      \* PVT24.mem, as the bytes written over what newPVT24 put there
  rbuf,     \* Read: what the call left in its buffer b
  wlog      \* the Write calls made on the simulated device so far: [at, len]

devvars == <<mem, rbuf, wlog>>

VARIABLES
  wr,       \* two Write calls on one driver: the locals of either caller,
            \* [pc, b, origsize, nip, ld, n, err]
  overlap   \* a Write was called while the other was running

convars == <<wr, overlap>>

VARIABLES
  off64     \* Seek with the int64 arithmetic of the code: its offset argument

widevars == <<off64>>

vars == <<txvars, eevars, capvars, devvars, convars, widevars>>

\* what a bus master may implement besides the four operations of I2CMaster
Masters == [t8 : BOOLEAN, t16 : BOOLEAN]

\* a bus master that implements I2CMaster only
PlainMaster == [t8 |-> FALSE, t16 |-> FALSE]

\* type PVT24 has Transact8x8 and Transact16x8 of its own
PVT24 == [t8 |-> TRUE, t16 |-> TRUE]

\* mutant: the generic executor is built whatever m implements
NewTransact8x8_m(mm) == "transactor8x8"

\* if t, ok := m.(Transactor8x8); ok { return t }; return transactor8x8{m}
NewTransact8x8(mm) == IF mm.t8 THEN "native" ELSE "transactor8x8"

\* mutant: the 16 bit operation is taken from the bus master unasked
NewTransact16x8_m(mm) == "native"

\* if t, ok := m.(Transactor16x8); ok { return t }
\* return transactor16x8{NewTransact8x8(m)}
NewTransact16x8(mm) == IF mm.t16 THEN "native" ELSE "transactor16x8"

\* what a transaction operation of the bus master itself may return: the
\* source holds one such master (PVT24, which always succeeds); the
\* interface promises counts within the buffers and len(w), len(r) on nil
NativeResults(wb, n) ==
  { [nw |-> Len(wb), nr |-> n, err |-> "nil"] }
    \cup { [nw |-> k, nr |-> 0, err |-> e] :
             k \in 0..Len(wb), e \in {NACKReceived, "BusFault"} }

\* one entry of the log of native transaction calls
NItem(op, a, ra, wb, n) ==
  [op |-> op, addr |-> a, regaddr |-> ra, w |-> wb, rlen |-> n]

NoCall == [op |-> "none", addr |-> [kind |-> "Addr7", raw |-> 0],
           regaddr |-> 0, w |-> <<>>, rlen |-> 0]

NoRes == [nw |-> 0, nr |-> 0, err |-> "none"]

TxInit ==
  /\ pc = "idle"
  /\ call = NoCall
  /\ addr = NoCall.addr
  /\ regaddr = 0
  /\ w = <<>>
  /\ r = <<>>
  /\ nw = 0
  /\ nr = 0
  /\ err = "nil"
  /\ log = <<>>
  /\ cw = <<>>
  /\ res = NoRes

\* one entry of the log of bus master calls
Item(typ, byte, ack, e) == [typ |-> typ, b |-> byte, ack |-> ack, err |-> e]

\* mutant: the address width is not checked
Enter8x8_m(a, ra, wb, n) ==
  /\ addr' = a
  /\ regaddr' = ra
  /\ w' = wb
  /\ r' = Zeros(n)
  /\ nw' = 0
  /\ nr' = 0
  /\ log' = <<>>
  /\ res' = NoRes
  /\ err' = "nil"
  /\ pc' = "start"

(***************************************************************************)
(* I2CMasterTransact8x8, entered with (a, ra, wb, r of length n): the      *)
(* counters are cleared and the address width is checked.                  *)
(***************************************************************************)
Enter8x8(a, ra, wb, n) ==
  /\ addr' = a
  /\ regaddr' = ra
  /\ w' = wb
  /\ r' = Zeros(n)
  /\ nw' = 0
  /\ nr' = 0
  /\ log' = <<>>
  /\ res' = NoRes
  /\ IF GetAddrLen(a) # 7
       THEN /\ err' = "ErrAddrLen"
            /\ pc' = "ret"
       ELSE /\ err' = "nil"
            /\ pc' = "start"

\* transactor8x8.Transact8x8: return I2CMasterTransact8x8(t.m, addr, regaddr, w, r)
Transact8x8 ==
  /\ pc = "idle"
  /\ NewTransact8x8(m) = "transactor8x8"
  /\ \E a \in Addrs, ra \in RegAddrs8, wb \in SeqsUpTo(DataBytes, MaxW), n \in 0..MaxR :
       /\ call' = [op |-> "8x8", addr |-> a, regaddr |-> ra, w |-> wb, rlen |-> n]
       /\ cw' = <<>>
       /\ Enter8x8(a, ra, wb, n)
  /\ UNCHANGED <<eevars, capvars, devvars, convars, widevars>>

\* transactor16x8.Transact16x8 up to and including the delegated call
Transact16x8 ==
  /\ pc = "idle"
  /\ NewTransact16x8(m) = "transactor16x8"
  /\ NewTransact8x8(m) = "transactor8x8"
  /\ \E a \in Addrs, ra \in RegAddrs16, wb \in SeqsUpTo(DataBytes, MaxW), n \in 0..MaxR :
       /\ call' = [op |-> "16x8", addr |-> a, regaddr |-> ra, w |-> wb, rlen |-> n]
       /\ cw' = wb
       /\ Enter8x8(a, Hi8(ra), WBuf(ra, wb), n)
  /\ UNCHANGED <<eevars, capvars, devvars, convars, widevars>>

\* Transactor.Transact8x8 where NewTransact8x8 returned m itself
Native8x8 ==
  /\ pc = "idle"
  /\ NewTransact8x8(m) = "native"
  /\ \E a \in Addrs, ra \in RegAddrs8, wb \in SeqsUpTo(DataBytes, MaxW), n \in 0..MaxR :
       /\ call' = [op |-> "8x8", addr |-> a, regaddr |-> ra, w |-> wb, rlen |-> n]
       /\ nlog' = Append(nlog, NItem("8x8", a, ra, wb, n))
       /\ \E t \in NativeResults(wb, n) : res' = t
  /\ pc' = "done"
  /\ UNCHANGED <<addr, regaddr, w, r, nw, nr, err, log, cw>>
  /\ UNCHANGED <<eevars, m, devvars, convars, widevars>>

\* Transactor.Transact16x8 where NewTransact16x8 returned m itself
Native16x8 ==
  /\ pc = "idle"
  /\ NewTransact16x8(m) = "native"
  /\ \E a \in Addrs, ra \in RegAddrs16, wb \in SeqsUpTo(DataBytes, MaxW), n \in 0..MaxR :
       /\ call' = [op |-> "16x8", addr |-> a, regaddr |-> ra, w |-> wb, rlen |-> n]
       /\ nlog' = Append(nlog, NItem("16x8", a, ra, wb, n))
       /\ \E t \in NativeResults(wb, n) : res' = t
  /\ pc' = "done"
  /\ UNCHANGED <<addr, regaddr, w, r, nw, nr, err, log, cw>>
  /\ UNCHANGED <<eevars, m, devvars, convars, widevars>>

\* transactor16x8.Transact16x8 where t.tr8x8 is m itself: the delegated
\* call t.tr8x8.Transact8x8(addr, addrhi, wbuf, r) is one native call
Delegate16x8 ==
  /\ pc = "idle"
  /\ NewTransact16x8(m) = "transactor16x8"
  /\ NewTransact8x8(m) = "native"
  /\ \E a \in Addrs, ra \in RegAddrs16, wb \in SeqsUpTo(DataBytes, MaxW), n \in 0..MaxR :
       /\ call' = [op |-> "16x8", addr |-> a, regaddr |-> ra, w |-> wb, rlen |-> n]
       /\ cw' = wb
       /\ nlog' = Append(nlog, NItem("8x8", a, Hi8(ra), WBuf(ra, wb), n))
       /\ \E t \in NativeResults(WBuf(ra, wb), n) :
            /\ nw' = t.nw
            /\ nr' = t.nr
            /\ err' = t.err
  /\ pc' = "ret"
  /\ UNCHANGED <<addr, regaddr, w, r, log, res>>
  /\ UNCHANGED <<eevars, m, devvars, convars, widevars>>

\* mutant: a faulted initial start is followed by a stop
Start_m ==
  /\ pc = "start"
  /\ \E e \in BusOutcomes :
       /\ log' = Append(log, Item("START", 0, FALSE, e))
       /\ IF e # "nil"
            THEN /\ err' = e
                 /\ pc' = "stop"
            ELSE /\ err' = err
                 /\ pc' = "addr"
  /\ UNCHANGED <<call, addr, regaddr, w, r, nw, nr, cw, res>>
  /\ UNCHANGED <<eevars, capvars, devvars, convars, widevars>>

\* if err := m.Start(); err != nil { return nw, nr, err }
Start ==
  /\ pc = "start"
  /\ \E e \in BusOutcomes :
       /\ log' = Append(log, Item("START", 0, FALSE, e))
       /\ IF e # "nil"
            THEN /\ err' = e
                 /\ pc' = "ret"
            ELSE /\ err' = err
                 /\ pc' = "addr"
  /\ UNCHANGED <<call, addr, regaddr, w, r, nw, nr, cw, res>>
  /\ UNCHANGED <<eevars, capvars, devvars, convars, widevars>>

\* address device
WriteAddr ==
  /\ pc = "addr"
  /\ \E e \in BusOutcomes :
       /\ log' = Append(log, Item("WRITE", AddrByte(addr), FALSE, e))
       /\ IF e # "nil"
            THEN /\ err' = AddrErr(e)
                 /\ pc' = "stop"
            ELSE /\ err' = err
                 /\ pc' = "reg"
  /\ UNCHANGED <<call, addr, regaddr, w, r, nw, nr, cw, res>>
  /\ UNCHANGED <<eevars, capvars, devvars, convars, widevars>>

\* mutant: a fault on the register address byte returns at once, without stop
WriteReg_m ==
  /\ pc = "reg"
  /\ \E e \in BusOutcomes :
       /\ log' = Append(log, Item("WRITE", regaddr, FALSE, e))
       /\ IF e # "nil"
            THEN /\ err' = e
                 /\ pc' = "ret"
            ELSE /\ err' = err
                 /\ pc' = IF Len(w) > 0 THEN "wr" ELSE AfterWrites(Len(r))
  /\ UNCHANGED <<call, addr, regaddr, w, r, nw, nr, cw, res>>
  /\ UNCHANGED <<eevars, capvars, devvars, convars, widevars>>

\* mutant: a NACK on the register address byte is taken for a missing device
WriteReg_nack ==
  /\ pc = "reg"
  /\ \E e \in BusOutcomes :
       /\ log' = Append(log, Item("WRITE", regaddr, FALSE, e))
       /\ IF e # "nil"
            THEN /\ err' = AddrErr(e)
                 /\ pc' = "stop"
            ELSE /\ err' = err
                 /\ pc' = IF Len(w) > 0 THEN "wr" ELSE AfterWrites(Len(r))
  /\ UNCHANGED <<call, addr, regaddr, w, r, nw, nr, cw, res>>
  /\ UNCHANGED <<eevars, capvars, devvars, convars, widevars>>

\* write regaddr
WriteReg ==
  /\ pc = "reg"
  /\ \E e \in BusOutcomes :
       /\ log' = Append(log, Item("WRITE", regaddr, FALSE, e))
       /\ IF e # "nil"
            THEN /\ err' = e
                 /\ pc' = "stop"
            ELSE /\ err' = err
                 /\ pc' = IF Len(w) > 0 THEN "wr" ELSE AfterWrites(Len(r))
  /\ UNCHANGED <<call, addr, regaddr, w, r, nw, nr, cw, res>>
  /\ UNCHANGED <<eevars, capvars, devvars, convars, widevars>>

\* mutant: the byte is counted before it is known to be written
WriteData_m ==
  /\ pc = "wr"
  /\ \E e \in BusOutcomes :
       /\ log' = Append(log, Item("WRITE", w[nw + 1], FALSE, e))
       /\ nw' = nw + 1
       /\ IF e # "nil"
            THEN /\ err' = e
                 /\ pc' = "stop"
            ELSE /\ err' = err
                 /\ pc' = IF nw + 1 < Len(w) THEN "wr" ELSE AfterWrites(Len(r))
  /\ UNCHANGED <<call, addr, regaddr, w, r, nr, cw, res>>
  /\ UNCHANGED <<eevars, capvars, devvars, convars, widevars>>

\* write w: one iteration of the range loop, at index nw
WriteData ==
  /\ pc = "wr"
  /\ \E e \in BusOutcomes :
       /\ log' = Append(log, Item("WRITE", w[nw + 1], FALSE, e))
       /\ IF e # "nil"
            THEN /\ err' = e
                 /\ nw' = nw
                 /\ pc' = "stop"
            ELSE /\ err' = err
                 /\ nw' = nw + 1
                 /\ pc' = IF nw + 1 < Len(w) THEN "wr" ELSE AfterWrites(Len(r))
  /\ UNCHANGED <<call, addr, regaddr, w, r, nr, cw, res>>
  /\ UNCHANGED <<eevars, capvars, devvars, convars, widevars>>

\* start again
Restart ==
  /\ pc = "rstart"
  /\ \E e \in BusOutcomes :
       /\ log' = Append(log, Item("START", 0, FALSE, e))
       /\ IF e # "nil"
            THEN /\ err' = e
                 /\ pc' = "stop"
            ELSE /\ err' = err
                 /\ pc' = "raddr"
  /\ UNCHANGED <<call, addr, regaddr, w, r, nw, nr, cw, res>>
  /\ UNCHANGED <<eevars, capvars, devvars, convars, widevars>>

\* mutant: a fault on the read address byte is reported as it came
WriteReadAddr_m ==
  /\ pc = "raddr"
  /\ \E e \in BusOutcomes :
       /\ log' = Append(log, Item("WRITE", ReadAddrByte(addr), FALSE, e))
       /\ IF e # "nil"
            THEN /\ err' = e
                 /\ pc' = "stop"
            ELSE /\ err' = err
                 /\ pc' = "rd"
  /\ UNCHANGED <<call, addr, regaddr, w, r, nw, nr, cw, res>>
  /\ UNCHANGED <<eevars, capvars, devvars, convars, widevars>>

\* write device's read address
WriteReadAddr ==
  /\ pc = "raddr"
  /\ \E e \in BusOutcomes :
       /\ log' = Append(log, Item("WRITE", ReadAddrByte(addr), FALSE, e))
       /\ IF e # "nil"
            THEN /\ err' = AddrErr(e)
                 /\ pc' = "stop"
            ELSE /\ err' = err
                 /\ pc' = "rd"
  /\ UNCHANGED <<call, addr, regaddr, w, r, nw, nr, cw, res>>
  /\ UNCHANGED <<eevars, capvars, devvars, convars, widevars>>

\* mutant: a faulted read is tried again
ReadByte_m ==
  /\ pc = "rd"
  /\ \E e \in BusOutcomes, rb \in DataBytes :
       /\ log' = Append(log, Item("READ", rb, AckFor(nr, Len(r)), e))
       /\ IF e # "nil"
            THEN /\ err' = e
                 /\ r' = r
                 /\ nr' = nr
                 /\ pc' = "rd"
            ELSE /\ err' = err
                 /\ r' = [r EXCEPT ![nr + 1] = rb]
                 /\ nr' = nr + 1
                 /\ pc' = IF nr + 1 < Len(r) THEN "rd" ELSE "stop"
  /\ UNCHANGED <<call, addr, regaddr, w, nw, cw, res>>
  /\ UNCHANGED <<eevars, capvars, devvars, convars, widevars>>

\* one iteration of the read loop, at index i = nr
ReadByte ==
  /\ pc = "rd"
  /\ \E e \in BusOutcomes, rb \in DataBytes :
       /\ log' = Append(log, Item("READ", rb, AckFor(nr, Len(r)), e))
       /\ IF e # "nil"
            THEN /\ err' = e
                 /\ r' = r
                 /\ nr' = nr
                 /\ pc' = "stop"
            ELSE /\ err' = err
                 /\ r' = [r EXCEPT ![nr + 1] = rb]
                 /\ nr' = nr + 1
                 /\ pc' = IF nr + 1 < Len(r) THEN "rd" ELSE "stop"
  /\ UNCHANGED <<call, addr, regaddr, w, nw, cw, res>>
  /\ UNCHANGED <<eevars, capvars, devvars, convars, widevars>>

\* mutant: a stop that faults is sent again
Stop_m ==
  /\ pc = "stop"
  /\ \E e \in BusOutcomes :
       /\ log' = Append(log, Item("STOP", 0, FALSE, e))
       /\ err' = AfterStop(err, e)
       /\ pc' = IF e # "nil" THEN "stop" ELSE "ret"
  /\ UNCHANGED <<call, addr, regaddr, w, r, nw, nr, cw, res>>
  /\ UNCHANGED <<eevars, capvars, devvars, convars, widevars>>

\* the stop after the inner function
Stop ==
  /\ pc = "stop"
  /\ \E e \in BusOutcomes :
       /\ log' = Append(log, Item("STOP", 0, FALSE, e))
       /\ err' = AfterStop(err, e)
  /\ pc' = "ret"
  /\ UNCHANGED <<call, addr, regaddr, w, r, nw, nr, cw, res>>
  /\ UNCHANGED <<eevars, capvars, devvars, convars, widevars>>

\* return nw, nr, err, to the caller of Transact8x8
Return8x8 ==
  /\ pc = "ret"
  /\ call.op = "8x8"
  /\ res' = [nw |-> nw, nr |-> nr, err |-> err]
  /\ pc' = "done"
  /\ UNCHANGED <<call, addr, regaddr, w, r, nw, nr, err, log, cw>>
  /\ UNCHANGED <<eevars, capvars, devvars, convars, widevars>>

\* Transact16x8 after the delegated call: adjust for the one byte of "data"
Return16x8 ==
  /\ pc = "ret"
  /\ call.op = "16x8"
  /\ res' = [nw |-> AdjustNw(nw), nr |-> nr, err |-> err]
  /\ pc' = "done"
  /\ UNCHANGED <<call, addr, regaddr, w, r, nw, nr, err, log, cw>>
  /\ UNCHANGED <<eevars, capvars, devvars, convars, widevars>>

TxNext ==
  \/ Transact8x8
  \/ Transact16x8
  \/ Start
  \/ WriteAddr
  \/ WriteReg
  \/ WriteData
  \/ Restart
  \/ WriteReadAddr
  \/ ReadByte
  \/ Stop
  \/ Return8x8
  \/ Return16x8

(***************************************************************************)
(* eeprom24.go                                                             *)
(***************************************************************************)
\* mutant: one more bit of size is let through
MAX_EEPROM_SIZE_m == 2 ^ 20

\* MAX_EEPROM_SIZE = 1 << (16 + 3)
MAX_EEPROM_SIZE == 524288

\* x & y on unsigned integers
RECURSIVE BitAnd(_, _)
BitAnd(x, y) ==
  IF x = 0 \/ y = 0 THEN 0
  ELSE (x % 2) * (y % 2) + 2 * BitAnd(x \div 2, y \div 2)

\* mutant: i & (i - 1) == 0, which takes 0 for a power of two
ispow2_m(i) == BitAnd(i, i - 1) = 0

\* for (i&0x01) == 0 && i > 0 { i >>= 1 }; return i == 1
RECURSIVE ispow2(_)
ispow2(i) ==
  IF i % 2 = 0 /\ i > 0 THEN ispow2(i \div 2) ELSE i = 1

\* the checks of NewEEPROM24, in its order; "nil" when the driver is built
NewEEPROM24Err(a, c) ==
  IF c.PageSize > c.Size THEN "ErrPageSize"
  ELSE IF c.Size > MAX_EEPROM_SIZE THEN "ErrSize"
  ELSE IF ~ispow2(c.Size) THEN "ErrSizePow2"
  ELSE IF ~ispow2(c.PageSize) THEN "ErrPagePow2"
  ELSE IF GetAddrLen(a) # 7 THEN "ErrAddrLen"
  ELSE "nil"

\* mutant: the threshold one bit higher
hasSmallAddresses_m(c) == c.Size <= 4096

\* EEPROM24Config.hasSmallAddresses: e.Size <= (1 << 11)
hasSmallAddresses(c) == c.Size <= 2048

\* aip := e.p & (e.conf.PageSize - 1)
Aip(fp, c) == BitAnd(fp, c.PageSize - 1)

\* mutant: one byte to a transaction
Nip_one(fp, c, n) == IF n > 1 THEN 1 ELSE n

\* mutant: the chunk is not cut at the end of the page
Nip_m(fp, c, n) == n

\* nip := uint(len(b)); if nip > PageSize-aip { nip = PageSize - aip }
Nip(fp, c, n) ==
  IF n > c.PageSize - Aip(fp, c) THEN c.PageSize - Aip(fp, c) ELSE n

\* mutant: the device address is never incremented
DevAddrInc_m(fp, c) == 0

\* devaddrinc := e.p >> 8 (small addresses), e.p >> 16 (big addresses)
DevAddrInc(fp, c) ==
  IF hasSmallAddresses(c) THEN fp \div 256 ELSE fp \div 65536

\* Addr7(uint8(e.devaddr.GetBaseAddr() + uint16(devaddrinc)))
TrDevAddr(fp, c, a) ==
  [kind |-> "Addr7",
   raw |-> ((GetBaseAddr(a) + (DevAddrInc(fp, c) % 65536)) % 65536) % 256]

\* regaddr := uint8(e.p & 0xff) (small addresses), uint16(e.p) (big addresses)
TrRegAddr(fp, c) ==
  IF hasSmallAddresses(c) THEN BitAnd(fp, 255) ELSE fp % 65536

\* the transaction one iteration of the Write loop issues
WriteTr(fp, c, a, wb) ==
  [op |-> IF hasSmallAddresses(c) THEN "8x8" ELSE "16x8",
   addr |-> TrDevAddr(fp, c, a),
   regaddr |-> TrRegAddr(fp, c),
   w |-> wb,
   rlen |-> 0,
   by |-> "Write",
   at |-> fp,
   res |-> NoRes]

(***************************************************************************)
(* What a transaction of the generic executors may return, for a write     *)
(* buffer wb, a read buffer of length n and a 7 bit address (the results   *)
(* of I2CMasterTransact8x8 and, with the address low byte taken off, of    *)
(* Transact16x8): all done and no error; NoSuchDevice from an address      *)
(* byte, before any byte is written or after all are written and none is   *)
(* read; a fault of the bus master after any number of bytes, no byte      *)
(* being read before all are written.                                      *)
(***************************************************************************)
BusFaults == BusOutcomes \ {"nil"}

TrResults(wb, n) ==
  { [nw |-> Len(wb), nr |-> n, err |-> "nil"] }
    \cup { [nw |-> 0, nr |-> 0, err |-> NoSuchDevice] }
    \cup { [nw |-> Len(wb), nr |-> 0, err |-> NoSuchDevice] : j \in 1..n }
    \cup { [nw |-> k, nr |-> 0, err |-> e] : k \in 0..Len(wb), e \in BusFaults }
    \cup { [nw |-> Len(wb), nr |-> j, err |-> e] : j \in 0..n, e \in BusFaults }

(***************************************************************************)
(* PVT24, the page verifying device of the tests: a memory whose address   *)
(* is the low three bits of the device address followed by the register    *)
(* address; it has Transact8x8 and Transact16x8 of its own, which never    *)
(* fault.                                                                  *)
(***************************************************************************)
\* x ^ y on unsigned integers
RECURSIVE BitXor(_, _)
BitXor(x, y) ==
  IF x = 0 THEN y
  ELSE IF y = 0 THEN x
  ELSE ((x + y) % 2) + 2 * BitXor(x \div 2, y \div 2)

\* newPVT24: p.mem[i] = 0x24 ^ uint8(i)
MemInit(i) == BitXor(36, i % 256)

\* p.mem[i], mm holding the bytes written since newPVT24
MemAt(mm, i) == IF i \in DOMAIN mm THEN mm[i] ELSE MemInit(i)

\* memaddr := ((uint(addr.GetBaseAddr()) & 0x07) << 8) + uint(regaddr), and
\* << 16 in Transact16x8
MemAddr(tr) ==
  BitAnd(GetBaseAddr(tr.addr), 7) * (IF tr.op = "8x8" THEN 256 ELSE 65536)
    + tr.regaddr

\* rwhandler: waddr := (memaddr & (p.pagesize - 1)) | startpagebase, for the
\* byte of wb at index j, memaddr having been incremented j times
WAddr(memaddr, j, pagesize) ==
  LET startpagebase == memaddr - BitAnd(memaddr, pagesize - 1)
  IN  BitAnd(memaddr + j, pagesize - 1) + startpagebase

\* rwhandler, the loop over wb: p.mem[waddr] = b, a later byte over an
\* earlier one at the same address
DevWrite(mm, tr, pagesize) ==
  LET n == Len(tr.w)
      wa(j) == WAddr(MemAddr(tr), j - 1, pagesize)
      touched == { wa(j) : j \in 1..n }
      last(a) == CHOOSE j \in 1..n :
                   wa(j) = a /\ \A k \in 1..n : wa(k) = a => k <= j
  IN  [a \in (DOMAIN mm) \cup touched |->
         IF a \in touched THEN tr.w[last(a)] ELSE mm[a]]

\* rwhandler, the loop over rb: rb[i] = p.mem[memaddr]; memaddr++
DevRead(mm, tr) == [i \in 1..tr.rlen |-> MemAt(mm, MemAddr(tr) + i - 1)]

\* which implementation e.tr hands a transaction to
Routed(op) == IF op = "8x8" THEN NewTransact8x8(m) ELSE NewTransact16x8(m)

\* what the transaction tr of the driver returns: PVT24 returns
\* len(wb), len(rb), nil; the generic executors any of TrResults
DrvResults(tr) ==
  IF Routed(tr.op) = "native"
    THEN { [nw |-> Len(tr.w), nr |-> tr.rlen, err |-> "nil"] }
    ELSE TrResults(tr.w, tr.rlen)

(***************************************************************************)
(* Bounds and inputs of the driver.                                        *)
(***************************************************************************)
\* longest buffer handed to Write
MaxBuf == 6
\* calls are made with the file pointer at most this far from a boundary
Win == 4

\* with the simulated device: the longest buffer, the distance from a
\* boundary and the number of Write calls
DevBuf == 3
DevWin == 1
MaxWrites == 1

\* the buffer of length n handed to Write: every position its own byte
Buf(n) == [i \in 1..n |-> 16 + i]

\* configurations handed to NewEEPROM24: small and big addresses, one and
\* several device addresses, a page wider than a device address, and the
\* configurations NewEEPROM24 rejects
Confs ==
  { [Size |-> 1, PageSize |-> 1],
    [Size |-> 16, PageSize |-> 4],
    [Size |-> 512, PageSize |-> 8],
    [Size |-> 2048, PageSize |-> 512],
    [Size |-> 4096, PageSize |-> 4],
    [Size |-> 131072, PageSize |-> 8],
    [Size |-> 524288, PageSize |-> 256],
    [Size |-> 0, PageSize |-> 0],
    [Size |-> 16, PageSize |-> 0],
    [Size |-> 4, PageSize |-> 8],
    [Size |-> 100, PageSize |-> 4],
    [Size |-> 16, PageSize |-> 13],
    [Size |-> 1048576, PageSize |-> 8] }

\* device addresses handed to NewEEPROM24
EEAddrs ==
  { [kind |-> "Addr7", raw |-> 80],
    [kind |-> "Addr7", raw |-> 127],
    [kind |-> "Addr10", raw |-> 80] }

\* the span of one device address
BankSpan(c) == IF hasSmallAddresses(c) THEN 256 ELSE 65536

\* the offsets at most Win away from o
Around(o) == (o - Win)..(o + Win)

\* the offsets the model visits: around the start of the array, the first
\* page boundary, the boundaries between device addresses and the end of
\* the array, out of range on both sides included
Offsets(c) ==
  UNION { Around(k * BankSpan(c)) : k \in 0..(c.Size \div BankSpan(c)) }
    \cup Around(c.PageSize)
    \cup Around(c.Size)

\* the offsets visited with the simulated device: around the first page
\* boundary and the first boundary between device addresses
DevOffsets(c) ==
  ((c.PageSize - DevWin)..(c.PageSize + DevWin))
    \cup ((BankSpan(c) - DevWin)..(BankSpan(c) + DevWin))

\* the configurations of the simulated device: small and big addresses
DevConfs ==
  { [Size |-> 512, PageSize |-> 8],
    [Size |-> 131072, PageSize |-> 8] }

\* the offsets and the buffer lengths of the calls
Scope == IF m = PVT24 THEN DevOffsets(conf) ELSE Offsets(conf)
BufLens == IF m = PVT24 THEN 0..DevBuf ELSE 0..MaxBuf

\* no Seek is running
NoSeek == [offset |-> 0, whence |-> 0, from |-> 0]

EEInit ==
  /\ \E a \in EEAddrs, c \in Confs :
       /\ conf = c
       /\ devaddr = a
       /\ newerr = NewEEPROM24Err(a, c)
  /\ p = 0
  /\ epc = "idle"
  /\ b = <<>>
  /\ origsize = 0
  /\ trs = <<>>
  /\ eres = [n |-> 0, err |-> "none", of |-> "none"]
  /\ seek = NoSeek

\* a call of the driver may begin: there is a driver and no call is running
CanCall == newerr = "nil" /\ epc = "idle"

\* Write is called with the file pointer at one of the offsets the model visits
InScope == p \in Scope

(***************************************************************************)
(* ee24.Seek.  The offsets handed in are small, so that the int64          *)
(* arithmetic of the candidate position does not wrap.                     *)
(***************************************************************************)
\* the offset the caller hands to Seek to aim at the candidate position cand
SeekOffsetFor(whence, cand) ==
  CASE whence = 1 -> cand - p
    [] whence = 2 -> cand - conf.Size
    [] OTHER -> cand

\* mutant: whence 2 is taken relative to the file pointer
NewPos_m(whence, offset, P, c) ==
  CASE whence = 0 -> offset
    [] whence = 1 -> P + offset
    [] whence = 2 -> P + offset
    [] OTHER -> 0

\* switch whence { case 0: nP = offset; case 1: nP = P + offset;
\* case 2: nP = int64(e.conf.Size) + offset }
NewPos(whence, offset, P, c) ==
  CASE whence = 0 -> offset
    [] whence = 1 -> P + offset
    [] whence = 2 -> c.Size + offset
    [] OTHER -> 0

\* mutant: a negative candidate is reported as out of range
SeekErr_m(whence, nP, c) ==
  IF whence \notin {0, 1, 2} THEN "ErrWhence"
  ELSE IF nP < 0 \/ nP > c.Size THEN "ErrBeyondEnd"
  ELSE "nil"

\* the three error returns of Seek, in its order; "nil" when it goes on
SeekErr(whence, nP, c) ==
  IF whence \notin {0, 1, 2} THEN "ErrWhence"
  ELSE IF nP < 0 THEN "ErrNegative"
  ELSE IF nP > c.Size THEN "ErrBeyondEnd"
  ELSE "nil"

Seek ==
  /\ CanCall
  /\ \E whence \in 0..3, cand \in Scope :
       LET offset == SeekOffsetFor(whence, cand)
           P == p
           nP == NewPos(whence, offset, P, conf)
           e == SeekErr(whence, nP, conf)
       IN  /\ seek' = [offset |-> offset, whence |-> whence, from |-> p]
           /\ eres' = [n |-> P, err |-> e, of |-> "Seek"]
           /\ p' = IF e = "nil" THEN nP ELSE p
  /\ epc' = "done"
  /\ trs' = <<>>
  /\ UNCHANGED <<conf, devaddr, newerr, b, origsize>>
  /\ UNCHANGED <<txvars, capvars, devvars, convars, widevars>>

(***************************************************************************)
(* ee24.Write                                                              *)
(***************************************************************************)
\* origsize := len(b)
WriteCall ==
  /\ CanCall
  /\ InScope
  /\ \E n \in BufLens :
       /\ b' = Buf(n)
       /\ origsize' = n
  /\ IF m = PVT24
       THEN /\ Len(wlog) < MaxWrites
            /\ wlog' = Append(wlog, [at |-> p, len |-> origsize'])
       ELSE wlog' = wlog
  /\ epc' = "write"
  /\ trs' = <<>>
  /\ eres' = [n |-> 0, err |-> "none", of |-> "Write"]
  /\ UNCHANGED <<seek, conf, devaddr, p, newerr>>
  /\ UNCHANGED <<txvars, capvars, mem, rbuf, convars, widevars>>

\* mutant: the loop test is off by one
LoopTest_le(n, fp, c) == n > 0 /\ fp <= c.Size

\* mutant: the loop goes on at the end of the array
LoopTest_m(n, fp, c) == n > 0

\* for len(b) > 0 && e.p < e.conf.Size
LoopTest(n, fp, c) == n > 0 /\ fp < c.Size

\* mutant: the bytes of the faulted transaction are not counted
FaultCount_m(done, n) == done

\* return origsize - len(b) + nw, err
FaultCount(done, n) == done + n

\* mutant: the bytes written stay in b (b = b[nip:] is left out)
WriteChunk_m ==
  /\ epc = "write"
  /\ LoopTest(Len(b), p, conf)
  /\ LET nip == Nip(p, conf, Len(b))
         tr == WriteTr(p, conf, devaddr, SubSeq(b, 1, nip))
     IN  /\ mem' = IF Routed(tr.op) = "native"
                     THEN DevWrite(mem, tr, conf.PageSize)
                     ELSE mem
         /\ Len(trs) < MaxBuf
         /\ \E t \in DrvResults(tr) :
              /\ trs' = Append(trs, [tr EXCEPT !.res = t])
              /\ IF t.err # "nil"
                THEN /\ eres' = [n |-> FaultCount(origsize - Len(b), t.nw),
                                 err |-> t.err, of |-> "Write"]
                     /\ epc' = "done"
                     /\ UNCHANGED <<p, b>>
                ELSE /\ p' = p + nip
                     /\ b' = b
                     /\ UNCHANGED <<epc, eres>>
  /\ UNCHANGED <<seek, conf, devaddr, newerr, origsize>>
  /\ UNCHANGED <<txvars, capvars, rbuf, wlog, convars, widevars>>

\* one iteration of the loop: a transaction of the bytes that fit the page
WriteChunk ==
  /\ epc = "write"
  /\ LoopTest(Len(b), p, conf)
  /\ LET nip == Nip(p, conf, Len(b))
         tr == WriteTr(p, conf, devaddr, SubSeq(b, 1, nip))
     IN  /\ mem' = IF Routed(tr.op) = "native"
                     THEN DevWrite(mem, tr, conf.PageSize)
                     ELSE mem
         /\ \E t \in DrvResults(tr) :
              /\ trs' = Append(trs, [tr EXCEPT !.res = t])
              /\ IF t.err # "nil"
                THEN /\ eres' = [n |-> FaultCount(origsize - Len(b), t.nw),
                                 err |-> t.err, of |-> "Write"]
                     /\ epc' = "done"
                     /\ UNCHANGED <<p, b>>
                ELSE /\ p' = p + nip
                     /\ b' = SubSeq(b, nip + 1, Len(b))
                     /\ UNCHANGED <<epc, eres>>
  /\ UNCHANGED <<seek, conf, devaddr, newerr, origsize>>
  /\ UNCHANGED <<txvars, capvars, rbuf, wlog, convars, widevars>>

\* mutant: the end of the array is not reported
WriteDone_m ==
  /\ epc = "write"
  /\ ~LoopTest(Len(b), p, conf)
  /\ eres' = [n |-> origsize, err |-> "nil", of |-> "Write"]
  /\ epc' = "done"
  /\ UNCHANGED <<seek, conf, devaddr, p, newerr, b, origsize, trs>>
  /\ UNCHANGED <<txvars, capvars, devvars, convars, widevars>>

\* mutant: the end of the array is reported although b was consumed
WriteDone_eof ==
  /\ epc = "write"
  /\ ~LoopTest(Len(b), p, conf)
  /\ IF p = conf.Size
       THEN eres' = [n |-> origsize - Len(b), err |-> "EOF", of |-> "Write"]
       ELSE eres' = [n |-> origsize, err |-> "nil", of |-> "Write"]
  /\ epc' = "done"
  /\ UNCHANGED <<seek, conf, devaddr, p, newerr, b, origsize, trs>>
  /\ UNCHANGED <<txvars, capvars, devvars, convars, widevars>>

\* after the loop
WriteDone ==
  /\ epc = "write"
  /\ ~LoopTest(Len(b), p, conf)
  /\ IF p = conf.Size /\ Len(b) > 0
       THEN /\ eres' = [n |-> origsize - Len(b), err |-> "EOF", of |-> "Write"]
            /\ epc' = "done"
       ELSE IF p > conf.Size
       THEN /\ eres' = eres
            /\ epc' = "panic"
       ELSE /\ eres' = [n |-> origsize, err |-> "nil", of |-> "Write"]
            /\ epc' = "done"
  /\ UNCHANGED <<seek, conf, devaddr, p, newerr, b, origsize, trs>>
  /\ UNCHANGED <<txvars, capvars, devvars, convars, widevars>>

(***************************************************************************)
(* ee24.Read: at most one transaction, of the bytes up to the end of the   *)
(* array.                                                                  *)
(***************************************************************************)
\* mutant: endpos is not cut at the end of the array
EndPos_m(fp, c, n) == fp + n

\* endpos := startpos + uint(len(b)); if endpos > Size { endpos = Size }
EndPos(fp, c, n) == IF fp + n > c.Size THEN c.Size ELSE fp + n

\* mutant: Read sends a byte ahead of what it reads
ReadTr_m(fp, c, a, k) ==
  [op |-> IF hasSmallAddresses(c) THEN "8x8" ELSE "16x8",
   addr |-> TrDevAddr(fp, c, a),
   regaddr |-> TrRegAddr(fp, c),
   w |-> <<0>>,
   rlen |-> k,
   by |-> "Read",
   at |-> fp,
   res |-> NoRes]

\* the transaction Read issues for rb = b[0:k] with the file pointer at fp
ReadTr(fp, c, a, k) ==
  [op |-> IF hasSmallAddresses(c) THEN "8x8" ELSE "16x8",
   addr |-> TrDevAddr(fp, c, a),
   regaddr |-> TrRegAddr(fp, c),
   w |-> <<>>,
   rlen |-> k,
   by |-> "Read",
   at |-> fp,
   res |-> NoRes]

\* mutant: the file pointer stays when the transaction faults
Read_m ==
  /\ CanCall
  /\ InScope
  /\ \E n \in BufLens :
       LET startpos == p
           endpos == EndPos(startpos, conf, n)
           tr == ReadTr(startpos, conf, devaddr, endpos - startpos)
       IN  /\ b' = Zeros(n)
           /\ origsize' = n
           /\ IF endpos - startpos = 0
                THEN /\ eres' = [n |-> 0, err |-> "EOF", of |-> "Read"]
                     /\ trs' = <<>>
                     /\ p' = p
                     /\ rbuf' = <<>>
                ELSE /\ rbuf' = IF Routed(tr.op) = "native"
                                  THEN DevRead(mem, tr)
                                  ELSE <<>>
                     /\ \E t \in DrvResults(tr) :
                          /\ trs' = <<[tr EXCEPT !.res = t]>>
                          /\ p' = IF t.err = "nil" THEN p + t.nr ELSE p
                          /\ eres' = [n |-> t.nr, err |-> t.err, of |-> "Read"]
  /\ epc' = "done"
  /\ UNCHANGED <<seek, conf, devaddr, newerr>>
  /\ UNCHANGED <<txvars, capvars, mem, wlog, convars, widevars>>

\* func (e *ee24) Read(b []byte) (int, error)
Read ==
  /\ CanCall
  /\ InScope
  /\ \E n \in BufLens :
       LET startpos == p
           endpos == EndPos(startpos, conf, n)
           tr == ReadTr(startpos, conf, devaddr, endpos - startpos)
       IN  /\ b' = Zeros(n)
           /\ origsize' = n
           /\ IF endpos - startpos = 0
                THEN /\ eres' = [n |-> 0, err |-> "EOF", of |-> "Read"]
                     /\ trs' = <<>>
                     /\ p' = p
                     /\ rbuf' = <<>>
                     /\ mem' = mem
                ELSE /\ mem' = IF Routed(tr.op) = "native" /\ tr.w # <<>>
                                 THEN DevWrite(mem, tr, conf.PageSize)
                                 ELSE mem
                     /\ rbuf' = IF Routed(tr.op) = "native"
                                  THEN DevRead(mem, tr)
                                  ELSE <<>>
                     /\ \E t \in DrvResults(tr) :
                          /\ trs' = <<[tr EXCEPT !.res = t]>>
                          /\ p' = p + t.nr
                          /\ eres' = [n |-> t.nr, err |-> t.err, of |-> "Read"]
  /\ epc' = "done"
  /\ UNCHANGED <<seek, conf, devaddr, newerr>>
  /\ UNCHANGED <<txvars, capvars, wlog, convars, widevars>>

\* the caller has taken the result; the driver keeps its file pointer
Return ==
  /\ epc = "done"
  /\ epc' = "idle"
  /\ b' = <<>>
  /\ origsize' = 0
  /\ trs' = <<>>
  /\ eres' = [n |-> 0, err |-> "none", of |-> "none"]
  /\ rbuf' = <<>>
  /\ seek' = NoSeek
  /\ UNCHANGED <<conf, devaddr, p, newerr>>
  /\ UNCHANGED <<txvars, capvars, mem, wlog, convars, widevars>>

EENext ==
  \/ Seek
  \/ Read
  \/ WriteCall
  \/ WriteChunk
  \/ WriteDone
  \/ Return

(***************************************************************************)
(* Specifications.                                                         *)
(***************************************************************************)
\* the driver that stands by while the transaction executors are exercised
EEIdle ==
  /\ conf = [Size |-> 16, PageSize |-> 4]
  /\ devaddr = [kind |-> "Addr7", raw |-> 80]
  /\ newerr = "nil"
  /\ p = 0
  /\ epc = "idle"
  /\ b = <<>>
  /\ origsize = 0
  /\ trs = <<>>
  /\ eres = [n |-> 0, err |-> "none", of |-> "none"]
  /\ seek = NoSeek

\* the bus master implements I2CMaster only; nothing is attached to it that
\* the model describes
CapPlain ==
  /\ m = PlainMaster
  /\ nlog = <<>>

DevIdle ==
  /\ mem = <<>>
  /\ rbuf = <<>>
  /\ wlog = <<>>

\* the callers of Write
Writers == {1, 2}

\* a caller that is not in a call
NoWrite == [pc |-> "idle", b |-> <<>>, origsize |-> 0, nip |-> 0, ld |-> 0,
            n |-> 0, err |-> "none"]

\* no second caller and no Seek with a wide offset
OneCaller ==
  /\ wr = [t \in Writers |-> NoWrite]
  /\ overlap = FALSE
  /\ off64 = <<0, 0, 0, 0>>

\* one transaction, the driver standing by
InitTx == TxInit /\ EEIdle /\ CapPlain /\ DevIdle /\ OneCaller

\* one transaction through NewTransactor(m), for every kind of bus master
InitCap ==
  /\ TxInit
  /\ EEIdle
  /\ m \in Masters
  /\ nlog = <<>>
  /\ DevIdle
  /\ OneCaller

CapNext ==
  \/ Transact8x8
  \/ Transact16x8
  \/ Native8x8
  \/ Native16x8
  \/ Delegate16x8
  \/ Start
  \/ WriteAddr
  \/ WriteReg
  \/ WriteData
  \/ Restart
  \/ WriteReadAddr
  \/ ReadByte
  \/ Stop
  \/ Return8x8
  \/ Return16x8

SpecCap == InitCap /\ [][CapNext]_vars

SpecTx == InitTx /\ [][TxNext]_vars

\* the driver at work, no transaction of SpecTx running
InitEE == EEInit /\ TxInit /\ CapPlain /\ DevIdle /\ OneCaller

SpecEE == InitEE /\ [][EENext]_vars

\* the driver on the simulated device: NewEEPROM24(newPVT24(conf, t),
\* Addr7(0xA0 >> 1), conf)
InitDev ==
  /\ TxInit
  /\ conf \in DevConfs
  /\ devaddr = [kind |-> "Addr7", raw |-> 80]
  /\ newerr = NewEEPROM24Err(devaddr, conf)
  /\ p = 0
  /\ epc = "idle"
  /\ b = <<>>
  /\ origsize = 0
  /\ trs = <<>>
  /\ eres = [n |-> 0, err |-> "none", of |-> "none"]
  /\ seek = NoSeek
  /\ m = PVT24
  /\ nlog = <<>>
  /\ DevIdle
  /\ OneCaller

SpecDev == InitDev /\ [][EENext]_vars

(***************************************************************************)
(* Two callers of ee24.Write on one driver, without a lock.  Either caller *)
(* runs the code of Write on locals of its own (b, origsize, nip) and on   *)
(* the one e.p; the steps are the loop test, the transaction, and the      *)
(* advance e.p += nip, which loads e.p and stores the sum.  The panic ends *)
(* the program.                                                            *)
(***************************************************************************)
\* longest buffer either caller hands to Write
ConcBuf == 2

ConcConfs == { [Size |-> 16, PageSize |-> 4] }

Running(t) == wr[t].pc \notin {"idle", "done"}

NoPanic == \A t \in Writers : wr[t].pc # "panic"

\* origsize := len(b)
CWriteCall ==
  /\ NoPanic
  /\ \E t \in Writers, n \in 0..ConcBuf :
       /\ ~Running(t)
       /\ wr' = [wr EXCEPT ![t] = [pc |-> "test", b |-> Buf(n), origsize |-> n,
                                   nip |-> 0, ld |-> 0, n |-> 0, err |-> "none"]]
       /\ overlap' = (overlap \/ \E u \in Writers \ {t} : Running(u))
  /\ UNCHANGED <<txvars, eevars, capvars, devvars, widevars>>

\* for len(b) > 0 && e.p < e.conf.Size
CLoopTest ==
  /\ NoPanic
  /\ \E t \in Writers :
       /\ wr[t].pc = "test"
       /\ wr' = [wr EXCEPT ![t].pc =
                   IF LoopTest(Len(wr[t].b), p, conf) THEN "tr" ELSE "after"]
  /\ UNCHANGED <<txvars, eevars, capvars, devvars, overlap, widevars>>

\* aip, nip and the transaction; a fault returns
CTransact ==
  /\ NoPanic
  /\ \E t \in Writers :
       /\ wr[t].pc = "tr"
       /\ LET nip == Nip(p, conf, Len(wr[t].b))
              tr == WriteTr(p, conf, devaddr, SubSeq(wr[t].b, 1, nip))
              done == wr[t].origsize - Len(wr[t].b)
          IN  \E res_ \in DrvResults(tr) :
                wr' = [wr EXCEPT ![t] =
                  IF res_.err # "nil"
                    THEN [@ EXCEPT !.pc = "done",
                                   !.n = FaultCount(done, res_.nw),
                                   !.err = res_.err]
                    ELSE [@ EXCEPT !.pc = "load", !.nip = nip]]
  /\ UNCHANGED <<txvars, eevars, capvars, devvars, overlap, widevars>>

\* e.p += uint(nip): the load of e.p
CLoad ==
  /\ NoPanic
  /\ \E t \in Writers :
       /\ wr[t].pc = "load"
       /\ wr' = [wr EXCEPT ![t].pc = "store", ![t].ld = p]
  /\ UNCHANGED <<txvars, eevars, capvars, devvars, overlap, widevars>>

\* e.p += uint(nip): the store of the sum; b = b[nip:]
CStore ==
  /\ NoPanic
  /\ \E t \in Writers :
       /\ wr[t].pc = "store"
       /\ p' = wr[t].ld + wr[t].nip
       /\ wr' = [wr EXCEPT ![t] =
                   [@ EXCEPT !.pc = "test",
                             !.b = SubSeq(@, wr[t].nip + 1, Len(@)),
                             !.nip = 0, !.ld = 0]]
  /\ UNCHANGED <<conf, devaddr, newerr, epc, b, origsize, trs, eres, seek>>
  /\ UNCHANGED <<txvars, capvars, devvars, overlap, widevars>>

\* after the loop
CAfter ==
  /\ NoPanic
  /\ \E t \in Writers :
       /\ wr[t].pc = "after"
       /\ wr' = [wr EXCEPT ![t] =
                   IF p = conf.Size /\ Len(@.b) > 0
                     THEN [@ EXCEPT !.pc = "done",
                                    !.n = wr[t].origsize - Len(wr[t].b),
                                    !.err = "EOF"]
                   ELSE IF p > conf.Size
                     THEN [@ EXCEPT !.pc = "panic"]
                     ELSE [@ EXCEPT !.pc = "done",
                                    !.n = wr[t].origsize, !.err = "nil"]]
  /\ UNCHANGED <<txvars, eevars, capvars, devvars, overlap, widevars>>

ConcNext ==
  \/ CWriteCall
  \/ CLoopTest
  \/ CTransact
  \/ CLoad
  \/ CStore
  \/ CAfter

\* NewEEPROM24, then the two callers
InitConc ==
  /\ TxInit
  /\ conf \in ConcConfs
  /\ devaddr = [kind |-> "Addr7", raw |-> 80]
  /\ newerr = NewEEPROM24Err(devaddr, conf)
  /\ p = 0
  /\ epc = "idle"
  /\ b = <<>>
  /\ origsize = 0
  /\ trs = <<>>
  /\ eres = [n |-> 0, err |-> "none", of |-> "none"]
  /\ seek = NoSeek
  /\ CapPlain
  /\ DevIdle
  /\ OneCaller

SpecConc == InitConc /\ [][ConcNext]_vars

(***************************************************************************)
(* The driver on the generic executors, call by call of the bus master:    *)
(* Write and Read hand their transactions to I2CMasterTransact8x8 (through *)
(* Transact16x8 with big addresses), which runs step by step, and go on    *)
(* with what it returns.                                                   *)
(***************************************************************************)
\* longest buffer handed to Read
TermBuf == 3

TermConfs == { [Size |-> 16, PageSize |-> 4], [Size |-> 4096, PageSize |-> 4] }

\* e.tr.Transact8x8(devaddr, regaddr, w, r) or e.tr.Transact16x8(...) is
\* entered with the transaction tr
EnterTr(tr) ==
  /\ call' = [op |-> tr.op, addr |-> tr.addr, regaddr |-> tr.regaddr,
              w |-> tr.w, rlen |-> tr.rlen]
  /\ IF tr.op = "8x8"
       THEN /\ cw' = <<>>
            /\ Enter8x8(tr.addr, tr.regaddr, tr.w, tr.rlen)
       ELSE /\ cw' = tr.w
            /\ Enter8x8(tr.addr, Hi8(tr.regaddr), WBuf(tr.regaddr, tr.w), tr.rlen)

\* the transaction has returned: its locals are gone
TxCleared ==
  /\ pc' = "idle"
  /\ call' = NoCall
  /\ addr' = NoCall.addr
  /\ regaddr' = 0
  /\ w' = <<>>
  /\ r' = <<>>
  /\ nw' = 0
  /\ nr' = 0
  /\ err' = "nil"
  /\ log' = <<>>
  /\ cw' = <<>>
  /\ res' = NoRes

\* Write: the loop test passes and the transaction of the iteration is called
WriteIssue ==
  /\ epc = "write"
  /\ pc = "idle"
  /\ LoopTest(Len(b), p, conf)
  /\ LET nip == Nip(p, conf, Len(b))
         tr == WriteTr(p, conf, devaddr, SubSeq(b, 1, nip))
     IN  /\ trs' = Append(trs, tr)
         /\ EnterTr(tr)
  /\ UNCHANGED <<conf, devaddr, p, newerr, epc, b, origsize, eres, seek>>
  /\ UNCHANGED <<capvars, devvars, convars, widevars>>

\* Write: the transaction has returned nw, err
WriteResume ==
  /\ epc = "write"
  /\ pc = "done"
  /\ LET nip == Len(trs[Len(trs)].w)
     IN  /\ trs' = [trs EXCEPT ![Len(trs)].res = res]
         /\ IF res.err # "nil"
              THEN /\ eres' = [n |-> FaultCount(origsize - Len(b), res.nw),
                               err |-> res.err, of |-> "Write"]
                   /\ epc' = "done"
                   /\ UNCHANGED <<p, b>>
              ELSE /\ p' = p + nip
                   /\ b' = SubSeq(b, nip + 1, Len(b))
                   /\ UNCHANGED <<epc, eres>>
  /\ TxCleared
  /\ UNCHANGED <<conf, devaddr, newerr, origsize, seek>>
  /\ UNCHANGED <<capvars, devvars, convars, widevars>>

\* Read up to the call of its transaction, or to its return at the end of
\* the array
ReadIssue ==
  /\ CanCall
  /\ InScope
  /\ pc = "idle"
  /\ \E n \in 0..TermBuf :
       LET startpos == p
           endpos == EndPos(startpos, conf, n)
           tr == ReadTr(startpos, conf, devaddr, endpos - startpos)
       IN  /\ b' = Zeros(n)
           /\ origsize' = n
           /\ IF endpos - startpos = 0
                THEN /\ eres' = [n |-> 0, err |-> "EOF", of |-> "Read"]
                     /\ trs' = <<>>
                     /\ epc' = "done"
                     /\ UNCHANGED txvars
                ELSE /\ eres' = [n |-> 0, err |-> "none", of |-> "Read"]
                     /\ trs' = <<tr>>
                     /\ epc' = "read"
                     /\ EnterTr(tr)
  /\ UNCHANGED <<conf, devaddr, p, newerr, seek>>
  /\ UNCHANGED <<capvars, devvars, convars, widevars>>

\* Read: the transaction has returned nr, err
ReadResume ==
  /\ epc = "read"
  /\ pc = "done"
  /\ trs' = <<[trs[1] EXCEPT !.res = res]>>
  /\ p' = p + res.nr
  /\ eres' = [n |-> res.nr, err |-> res.err, of |-> "Read"]
  /\ epc' = "done"
  /\ TxCleared
  /\ UNCHANGED <<conf, devaddr, newerr, b, origsize, seek>>
  /\ UNCHANGED <<capvars, devvars, convars, widevars>>

TermNext ==
  \/ Seek
  \/ WriteCall
  \/ WriteIssue
  \/ WriteResume
  \/ WriteDone
  \/ ReadIssue
  \/ ReadResume
  \/ Return
  \/ Start
  \/ WriteAddr
  \/ WriteReg
  \/ WriteData
  \/ Restart
  \/ WriteReadAddr
  \/ ReadByte
  \/ Stop
  \/ Return8x8
  \/ Return16x8

InitTerm ==
  /\ TxInit
  /\ conf \in TermConfs
  /\ devaddr = [kind |-> "Addr7", raw |-> 80]
  /\ newerr = NewEEPROM24Err(devaddr, conf)
  /\ p = 0
  /\ epc = "idle"
  /\ b = <<>>
  /\ origsize = 0
  /\ trs = <<>>
  /\ eres = [n |-> 0, err |-> "none", of |-> "none"]
  /\ seek = NoSeek
  /\ CapPlain
  /\ DevIdle
  /\ OneCaller

\* every call of the bus master returns and the callers go on: a step that
\* can be taken is taken
SpecTerm == InitTerm /\ [][TermNext]_vars /\ WF_vars(TermNext)

(***************************************************************************)
(* ee24.Seek with the arithmetic of the code: offset, P and nP are int64,  *)
(* two's complement, and P + offset wraps.  An int64 is written as its     *)
(* four 16 bit limbs, the lowest first.                                    *)
(***************************************************************************)
Limb == 2 ^ 16

\* the int64 of an integer of small size
RECURSIVE Of64(_)
Add64(x, y) ==
  LET s1 == x[1] + y[1]
      s2 == x[2] + y[2] + (s1 \div Limb)
      s3 == x[3] + y[3] + (s2 \div Limb)
      s4 == x[4] + y[4] + (s3 \div Limb)
  IN  <<s1 % Limb, s2 % Limb, s3 % Limb, s4 % Limb>>

Neg64(x) ==
  Add64(<<Limb - 1 - x[1], Limb - 1 - x[2], Limb - 1 - x[3], Limb - 1 - x[4]>>,
        <<1, 0, 0, 0>>)

Of64(i) ==
  IF i >= 0 THEN <<i % Limb, (i \div Limb) % Limb, 0, 0>> ELSE Neg64(Of64(-i))

MaxInt64 == <<Limb - 1, Limb - 1, Limb - 1, (Limb \div 2) - 1>>
MinInt64 == <<0, 0, 0, Limb \div 2>>

\* x < 0
IsNeg64(x) == x[4] >= Limb \div 2

\* x > s, for an integer s >= 0 of small size
Gt64(x, s) ==
  /\ ~IsNeg64(x)
  /\ \/ x[4] > 0
     \/ x[3] > 0
     \/ x[2] > s \div Limb
     \/ (x[2] = s \div Limb /\ x[1] > s % Limb)

\* uint(nP), for 0 <= nP and nP not above a size
ToUint(x) == x[2] * Limb + x[1]

\* switch whence { case 0: nP = offset; case 1: nP = P + offset;
\* case 2: nP = int64(e.conf.Size) + offset }, in int64
NewPos64(whence, offset, P, c) ==
  CASE whence = 0 -> offset
    [] whence = 1 -> Add64(Of64(P), offset)
    [] whence = 2 -> Add64(Of64(c.Size), offset)
    [] OTHER -> Of64(0)

\* the three error returns of Seek, on the int64 nP
SeekErr64(whence, nP, c) ==
  IF whence \notin {0, 1, 2} THEN "ErrWhence"
  ELSE IF IsNeg64(nP) THEN "ErrNegative"
  ELSE IF Gt64(nP, c.Size) THEN "ErrBeyondEnd"
  ELSE "nil"

\* offsets handed to Seek: small ones, and the ends of int64
SeekWin == 2

WideOffsets(c) ==
  { Of64(i) : i \in (-SeekWin)..SeekWin }
    \cup { Of64(c.Size + i) : i \in (-SeekWin)..SeekWin }
    \cup { Of64(i - c.Size) : i \in (-SeekWin)..SeekWin }
    \cup { Add64(MaxInt64, Of64(-i)) : i \in 0..SeekWin }
    \cup { Add64(MaxInt64, Of64(-(c.Size + i))) : i \in (-SeekWin)..SeekWin }
    \cup { Add64(MinInt64, Of64(i)) : i \in 0..SeekWin }

Seek64 ==
  /\ CanCall
  /\ InScope
  /\ \E whence \in 0..3, offset \in WideOffsets(conf) :
       LET P == p
           nP == NewPos64(whence, offset, P, conf)
           e == SeekErr64(whence, nP, conf)
       IN  /\ off64' = offset
           /\ seek' = [offset |-> 0, whence |-> whence, from |-> p]
           /\ eres' = [n |-> P, err |-> e, of |-> "Seek"]
           /\ p' = IF e = "nil" THEN ToUint(nP) ELSE p
  /\ epc' = "done" /\ trs' = <<>>
  /\ UNCHANGED <<conf, devaddr, newerr, b, origsize>>
  /\ UNCHANGED <<txvars, capvars, devvars, convars>>

\* the caller has taken the result of Seek
Return64 ==
  /\ epc = "done"
  /\ epc' = "idle"
  /\ eres' = [n |-> 0, err |-> "none", of |-> "none"]
  /\ seek' = NoSeek
  /\ off64' = Of64(0)
  /\ UNCHANGED <<conf, devaddr, p, newerr, b, origsize, trs>>
  /\ UNCHANGED <<txvars, capvars, devvars, convars>>

SeekNext ==
  \/ Seek64
  \/ Return64

SeekConfs == { [Size |-> 16, PageSize |-> 4], [Size |-> 524288, PageSize |-> 256] }

InitSeek ==
  /\ TxInit
  /\ conf \in SeekConfs
  /\ devaddr = [kind |-> "Addr7", raw |-> 80]
  /\ newerr = NewEEPROM24Err(devaddr, conf)
  /\ p = 0
  /\ epc = "idle"
  /\ b = <<>>
  /\ origsize = 0
  /\ trs = <<>>
  /\ eres = [n |-> 0, err |-> "none", of |-> "none"]
  /\ seek = NoSeek
  /\ CapPlain
  /\ DevIdle
  /\ OneCaller

SpecSeek == InitSeek /\ [][SeekNext]_vars

\* the results the driver's model draws for a transaction (TrResults) cover
\* what the executors return for a 7 bit address
TxResultCovered ==
  (pc = "done" /\ GetAddrLen(call.addr) = 7) => res \in TrResults(call.w, call.rlen)

(***************************************************************************)
(* Properties of the EEPROM driver (SpecEE).                               *)
(***************************************************************************)
\* the transactions of trs that Write issued
WriteTrs == { i \in 1..Len(trs) : trs[i].by = "Write" }

\* C1: for every valid configuration, file pointer and input buffer, each
\* transaction Write issues carries at least one byte and does not cross a
\* page boundary: starting at offset o with n bytes,
\* floor(o / pageSize) = floor((o + n - 1) / pageSize).
C1_NoPageCrossing ==
  \A i \in WriteTrs :
    /\ Len(trs[i].w) >= 1
    /\ trs[i].at \div conf.PageSize
         = (trs[i].at + Len(trs[i].w) - 1) \div conf.PageSize

C1_Witness ==
  /\ epc = "done" /\ eres = [n |-> 6, err |-> "nil", of |-> "Write"]
  /\ conf = [Size |-> 4096, PageSize |-> 4]
  /\ Len(trs) = 3
  /\ trs[1].at = 3 /\ Len(trs[1].w) = 1
  /\ Len(trs[2].w) = 4
  /\ Len(trs[3].w) = 1

(***************************************************************************)
(* Properties of the transaction executors (SpecTx).                       *)
(***************************************************************************)
\* the calls of the log without their outcomes; the byte a READ returned is
\* the device's and is left out
Calls(l) ==
  [i \in 1..Len(l) |->
     [typ |-> l[i].typ, b |-> IF l[i].typ = "READ" THEN 0 ELSE l[i].b, ack |-> l[i].ack]]

S_ == [typ |-> "START", b |-> 0, ack |-> FALSE]
P_ == [typ |-> "STOP", b |-> 0, ack |-> FALSE]
W_(byte) == [typ |-> "WRITE", b |-> byte, ack |-> FALSE]
R_(ack) == [typ |-> "READ", b |-> 0, ack |-> ack]

Writes(wb) == [i \in 1..Len(wb) |-> W_(wb[i])]

\* [S] [(devaddr<<1)|1] r[0] [A] ... r[n-1] [N], nothing when n = 0
ReadPhase(dev, n) ==
  IF n = 0 THEN <<>>
  ELSE <<S_, W_(dev * 2 + 1)>> \o [i \in 1..n |-> R_(i < n)]

Stops(l) == { i \in 1..Len(l) : l[i].typ = "STOP" }

\* a returned 7 bit transaction in which no call of the bus master faulted
FaultFreeTx ==
  /\ pc = "done"
  /\ GetAddrLen(call.addr) = 7
  /\ \A i \in 1..Len(log) : log[i].err = "nil"

\* a repeated start, a read-direction address byte or a readByte is in the log
HasReadPhase(l) ==
  \E i \in 2..Len(l) : l[i].typ \in {"START", "READ"} \/ (l[i].typ = "WRITE" /\ l[i].b % 2 = 1 /\ l[i - 1].typ = "START")

\* C2: a fault-free 8 bit transaction with non-empty w and non-empty r makes
\* exactly the calls start, writeByte(devaddr<<1), writeByte(regaddr),
\* writeByte of each byte of w in order, start, writeByte((devaddr<<1)|1),
\* readByte(ack) for all but the last index, readByte(no ack) for the last,
\* stop, and no other call.
C2_WriteThenReadSequence ==
  (FaultFreeTx /\ call.op = "8x8" /\ Len(call.w) > 0 /\ call.rlen > 0)
    => Calls(log) =
         <<S_, W_(GetBaseAddr(call.addr) * 2), W_(call.regaddr)>>
           \o Writes(call.w)
           \o <<S_, W_(GetBaseAddr(call.addr) * 2 + 1)>>
           \o [i \in 1..call.rlen |-> R_(i < call.rlen)]
           \o <<P_>>

C2_Witness ==
  /\ FaultFreeTx /\ call.op = "8x8"
  /\ Len(call.w) = 2 /\ call.rlen = 2
  /\ Len(log) = 10

\* C3: the 8 bit executor performs the read phase if and only if the read
\* buffer is non-empty: no read-phase call is ever made with an empty read
\* buffer, a transaction whose write phase did not fault and whose read
\* buffer is non-empty makes the repeated start, and a fault-free
\* transaction with an empty read buffer is exactly start, the address
\* byte, the register address byte (also when w is empty), the bytes of w,
\* stop.
C3_ReadPhaseIffReadBuffer ==
  call.op = "8x8" =>
    /\ HasReadPhase(log) => call.rlen > 0
    /\ (/\ pc = "done"
        /\ Len(log) >= 3 + Len(call.w)
        /\ \A i \in 1..(3 + Len(call.w)) : log[i].err = "nil"
        /\ call.rlen > 0)
         => (Len(log) > 3 + Len(call.w) /\ log[4 + Len(call.w)].typ = "START")
    /\ (FaultFreeTx /\ call.rlen = 0)
         => Calls(log) =
              <<S_, W_(GetBaseAddr(call.addr) * 2), W_(call.regaddr)>>
                \o Writes(call.w) \o <<P_>>

C3_Witness ==
  /\ FaultFreeTx /\ call.op = "8x8"
  /\ call.w = <<>> /\ call.rlen = 0
  /\ Len(log) = 4

\* C4: in an 8 bit transaction whose initial start succeeded exactly one
\* stop is issued and it is the last call on the bus master, whatever call
\* after the start faulted.
C4_ExactlyOneStopLast ==
  (call.op = "8x8" /\ Len(log) >= 1 /\ log[1].err = "nil")
    => /\ Cardinality(Stops(log)) <= 1
       /\ Stops(log) \subseteq {Len(log)}
       /\ pc = "done" => Stops(log) = {Len(log)}
       /\ Stops(log) # {} => pc \in {"ret", "done"}

C4_Witness ==
  /\ pc = "done" /\ call.op = "8x8"
  /\ Len(log) = 5
  /\ log[4].err = "BusFault"
  /\ log[5].typ = "STOP"

\* C5 as claimed: every executor call that made at least one call on the bus
\* master has issued a stop when it returns, the initial start reporting a
\* fault included.
C5_StopBeforeEveryReturn ==
  (pc = "done" /\ Len(log) >= 1) => Stops(log) # {}

\* C5 as amended: an executor call (8 bit or 16 bit) whose initial start
\* succeeded has issued a stop when it returns, for every fault pattern of
\* the later calls; when the initial start itself reports a fault, the call
\* returns that fault with the start as its only call, and no stop.
C5_StopUnlessStartFaulted ==
  (pc = "done" /\ Len(log) >= 1) =>
    IF log[1].err = "nil"
      THEN Stops(log) # {}
      ELSE /\ Calls(log) = <<S_>>
           /\ res = [nw |-> 0, nr |-> 0, err |-> log[1].err]

C5_Witness ==
  /\ pc = "done"
  /\ Len(log) = 1
  /\ log[1].err = "BusFault"

\* the faulting calls between the initial start and the stop
InnerFaults(l) == { i \in 2..(Len(l) - 1) : l[i].err # "nil" }

\* a device address byte: the byte written right after a start
IsAddrByte(l, i) == i >= 2 /\ l[i].typ = "WRITE" /\ l[i - 1].typ = "START"

\* the fault of call i as the transaction reports it
Reported(l, i) ==
  IF IsAddrByte(l, i) /\ l[i].err = "NACKReceived" THEN "NoSuchDevice" ELSE l[i].err

\* C6: an 8 bit transaction reports the first fault: when a call between
\* the initial start and the stop faulted, that fault (a NACK on an address
\* byte reported as NoSuchDevice) is returned and the outcome of the stop
\* is discarded; when none faulted, the outcome of the stop is returned.
C6_FirstFaultReported ==
  (pc = "done" /\ call.op = "8x8" /\ Len(log) >= 1 /\ log[1].err = "nil") =>
    IF InnerFaults(log) # {}
      THEN \E k \in InnerFaults(log) :
             /\ \A j \in InnerFaults(log) : k <= j
             /\ res.err = Reported(log, k)
      ELSE res.err = log[Len(log)].err

C6_Witness ==
  /\ pc = "done" /\ call.op = "8x8"
  /\ Len(log) = 4
  /\ log[3].err = "BusFault"
  /\ log[4].typ = "STOP" /\ log[4].err = "NACKReceived"

C6_WitnessStopOnly ==
  /\ pc = "done" /\ call.op = "8x8"
  /\ InnerFaults(log) = {}
  /\ Len(log) >= 4 /\ log[Len(log)].err = "BusFault"

\* C7: when the write of the device address byte is not acknowledged, the
\* 8 bit transaction reports NoSuchDevice with zero bytes written and zero
\* bytes read, for every register address, write buffer and read buffer.
C7_NoDevice ==
  (pc = "done" /\ call.op = "8x8" /\ Len(log) >= 2
     /\ log[1].err = "nil" /\ log[2].err = "NACKReceived")
    => res = [nw |-> 0, nr |-> 0, err |-> "NoSuchDevice"]

C7_Witness ==
  /\ pc = "done" /\ call.op = "8x8"
  /\ Len(log) >= 2 /\ log[1].err = "nil" /\ log[2].err = "NACKReceived"
  /\ Len(call.w) = 2 /\ call.rlen = 2

\* the caller's bytes whose writeByte succeeded: writes after the register
\* address byte and before any repeated start
DataWritesOK(l) ==
  { i \in 4..Len(l) :
      /\ l[i].typ = "WRITE" /\ l[i].err = "nil"
      /\ \A j \in 2..i : l[j].typ # "START" }

ReadsOK(l) == { i \in 1..Len(l) : l[i].typ = "READ" /\ l[i].err = "nil" }

\* C8: result counts of the 8 bit executor: on success bytes-written is
\* len(w) and bytes-read is len(r); on a fault bytes-written is the number
\* of bytes of w whose writeByte succeeded (the address and register
\* address bytes not counted) and bytes-read the number of readByte calls
\* that succeeded.
C8_ResultCounts ==
  (pc = "done" /\ call.op = "8x8") =>
    /\ res.err = "nil" => (res.nw = Len(call.w) /\ res.nr = call.rlen)
    /\ res.err # "nil" =>
         /\ res.nw = Cardinality(DataWritesOK(log))
         /\ res.nr = Cardinality(ReadsOK(log))

C8_Witness ==
  /\ pc = "done" /\ call.op = "8x8"
  /\ res.err = "BusFault"
  /\ Len(call.w) = 2 /\ call.rlen = 2
  /\ res.nw = 2 /\ res.nr = 1

\* C9: an 8 bit transaction called with a device address that is not 7 bits
\* wide returns the configuration error with zero bytes written and read,
\* and makes no call on the bus master at all.
C9_AddrWidthRejected ==
  (call.op = "8x8" /\ GetAddrLen(call.addr) # 7) =>
    /\ log = <<>>
    /\ pc \in {"ret", "done"}
    /\ pc = "done" => res = [nw |-> 0, nr |-> 0, err |-> "ErrAddrLen"]

C9_Witness ==
  /\ pc = "done" /\ call.op = "8x8"
  /\ call.addr.kind = "Addr10"
  /\ Len(call.w) = 2 /\ call.rlen = 2

\* C10: a fault-free emulated 16 bit transaction with register address a
\* and write buffer w puts on the wire, after the write-direction address
\* byte, a >> 8, a & 0xff and the bytes of w in order, then the read phase
\* (when r is non-empty) and the stop of the 8 bit executor; the caller's
\* write buffer is left as it was.
C10_Wire16x8 ==
  (FaultFreeTx /\ call.op = "16x8") =>
    /\ Calls(log) =
         <<S_, W_(GetBaseAddr(call.addr) * 2),
           W_(call.regaddr \div 256), W_(call.regaddr % 256)>>
           \o Writes(call.w)
           \o ReadPhase(GetBaseAddr(call.addr), call.rlen)
           \o <<P_>>
    /\ cw = call.w

C10_Witness ==
  /\ FaultFreeTx /\ call.op = "16x8"
  /\ call.regaddr = 4660
  /\ Len(call.w) = 2 /\ call.rlen = 2
  /\ Len(log) = 11

\* C11: when the emulated 16 bit transaction succeeds, the bytes-written it
\* reports is len(w) of its caller, which is the count of the delegated
\* 8 bit transaction minus one (the address low byte is never counted),
\* and the bytes-read it reports is the delegated bytes-read, unchanged.
C11_Counts16x8 ==
  (pc = "done" /\ call.op = "16x8" /\ res.err = "nil") =>
    /\ res.nw = Len(call.w)
    /\ res.nw = nw - 1
    /\ res.nr = nr

C11_Witness ==
  /\ pc = "done" /\ call.op = "16x8" /\ res.err = "nil"
  /\ Len(call.w) = 2 /\ call.rlen = 2
  /\ nw = 3 /\ res.nw = 2 /\ res.nr = 2

C11_WitnessEmptyW ==
  /\ pc = "done" /\ call.op = "16x8" /\ res.err = "nil"
  /\ call.w = <<>>
  /\ nw = 1 /\ res.nw = 0


\* the position in the log of the read address byte of the current call:
\* start, address byte, register address, len(w) data bytes, start again
RAddrAt == Len(call.w) + 5

\* C28: when the read address byte written after the repeated start is not
\* acknowledged, the 8 bit transaction returns NoSuchDevice with
\* nw = len(w) and nr = 0, calls no ReadByte, and calls Stop next and last.
C28_ReadAddrNack ==
  (/\ pc = "done" /\ call.op = "8x8"
   /\ Len(log) >= RAddrAt
   /\ IsAddrByte(log, RAddrAt)
   /\ log[RAddrAt].err = "NACKReceived") =>
    /\ res = [nw |-> Len(call.w), nr |-> 0, err |-> "NoSuchDevice"]
    /\ \A i \in 1..Len(log) : log[i].typ # "READ"
    /\ Len(log) = RAddrAt + 1
    /\ log[RAddrAt + 1].typ = "STOP"

C28_Witness ==
  /\ pc = "done" /\ call.op = "8x8"
  /\ Len(call.w) = 2 /\ call.rlen = 2
  /\ Len(log) = RAddrAt + 1
  /\ IsAddrByte(log, RAddrAt)
  /\ log[RAddrAt].b = ReadAddrByte(call.addr)
  /\ log[RAddrAt].err = "NACKReceived"
  /\ res.err = "NoSuchDevice" /\ res.nw = 2 /\ res.nr = 0

\* the read address byte is refused and the stop faults as well
C28_WitnessStopFault ==
  /\ pc = "done" /\ call.op = "8x8"
  /\ Len(log) = RAddrAt + 1
  /\ IsAddrByte(log, RAddrAt)
  /\ log[RAddrAt].err = "NACKReceived"
  /\ log[RAddrAt + 1].err = "BusFault"
  /\ res.err = "NoSuchDevice"

\* the faulted calls of a log
Faults(l) == { i \in 1..Len(l) : l[i].err # "nil" }

\* the first faulted call of a log that has one
FirstFault(l) == CHOOSE i \in Faults(l) : \A j \in Faults(l) : i <= j

\* C29: faults pass through the 8 bit transaction: a NACK on the register
\* address byte or on a data byte is returned as NACKReceived, never as
\* NoSuchDevice, and every other first fault of Start, WriteByte, ReadByte
\* or Stop, a fault other than NACK on an address byte included, is
\* returned as the call reported it.
C29_FaultPassThrough ==
  (pc = "done" /\ call.op = "8x8" /\ Faults(log) # {}) =>
    LET k == FirstFault(log)
    IN  ~(IsAddrByte(log, k) /\ log[k].err = "NACKReceived") =>
          /\ res.err = log[k].err
          /\ (log[k].typ = "WRITE" /\ log[k].err = "NACKReceived")
               => res.err = "NACKReceived"

\* the register address byte is refused
C29_Witness ==
  /\ pc = "done" /\ call.op = "8x8"
  /\ Len(log) = 4 /\ Faults(log) # {} /\ FirstFault(log) = 3
  /\ log[3].typ = "WRITE" /\ log[3].b = call.regaddr
  /\ log[3].err = "NACKReceived"
  /\ res.err = "NACKReceived"

\* a data byte is refused
C29_WitnessData ==
  /\ pc = "done" /\ call.op = "8x8"
  /\ Len(call.w) = 2 /\ Faults(log) # {} /\ FirstFault(log) = 5
  /\ log[5].typ = "WRITE" /\ log[5].err = "NACKReceived"
  /\ res.err = "NACKReceived"

\* an address byte faults with something other than a NACK
C29_WitnessAddrOther ==
  /\ pc = "done" /\ call.op = "8x8"
  /\ Faults(log) # {} /\ FirstFault(log) = 2
  /\ log[2].err = "BusFault" /\ res.err = "BusFault"

\* Start, ReadByte and Stop fault
C29_WitnessStart ==
  /\ pc = "done" /\ call.op = "8x8"
  /\ Len(log) = 1 /\ log[1].err # "nil" /\ res.err = log[1].err

C29_WitnessRead ==
  /\ pc = "done" /\ call.op = "8x8"
  /\ Faults(log) # {} /\ log[FirstFault(log)].typ = "READ"
  /\ res.err = log[FirstFault(log)].err

C29_WitnessStop ==
  /\ pc = "done" /\ call.op = "8x8"
  /\ Faults(log) = {Len(log)} /\ log[Len(log)].typ = "STOP"
  /\ res.err = log[Len(log)].err

\* the calls of a 7 bit transaction in which nothing faults
Expected(c) ==
  <<S_, W_(GetBaseAddr(c.addr) * 2), W_(c.regaddr)>>
    \o Writes(c.w) \o ReadPhase(GetBaseAddr(c.addr), c.rlen) \o <<P_>>

\* C30: an 8 bit transaction aborts on the first fault and retries nothing:
\* after the first faulted call that follows a successful initial start the
\* one further call is a single Stop, and the calls up to the fault are the
\* calls of the fault free transaction, each once and in order, so that no
\* byte is written or read twice and no Start is issued again.
C30_AbortOnFirstFault ==
  (/\ call.op = "8x8" /\ Len(log) >= 1 /\ log[1].err = "nil"
   /\ Faults(log) # {}) =>
    LET k == FirstFault(log)
    IN  /\ Len(log) <= k + 1
        /\ Len(log) = k + 1 => log[k + 1].typ = "STOP"
        /\ pc = "done" => (Len(log) = k + 1 \/ log[k].typ = "STOP")
        /\ SubSeq(Calls(log), 1, k) = SubSeq(Expected(call), 1, k)

\* a read faults after one byte has been read
C30_Witness ==
  /\ pc = "done" /\ call.op = "8x8"
  /\ Len(call.w) = 2 /\ call.rlen = 2
  /\ Faults(log) # {} /\ FirstFault(log) = RAddrAt + 2
  /\ log[RAddrAt + 2].typ = "READ"
  /\ Len(log) = RAddrAt + 3 /\ log[RAddrAt + 3].typ = "STOP"
  /\ res.nr = 1

\* a data byte faults
C30_WitnessWrite ==
  /\ pc = "done" /\ call.op = "8x8"
  /\ Len(call.w) = 2 /\ Faults(log) # {} /\ FirstFault(log) = 4
  /\ Len(log) = 5 /\ log[5].typ = "STOP"
  /\ res.nw = 0

\* the ReadByte calls of a log, and the index in r of the byte call i reads
Reads(l) == { i \in 1..Len(l) : l[i].typ = "READ" }
ReadIndex(l, i) == Cardinality({ j \in Reads(l) : j < i })

\* the last ReadByte call before call s, when there is one
LastReadBefore(l, s) ==
  CHOOSE i \in Reads(l) : i < s /\ \A j \in Reads(l) : j < s => j <= i

\* ReadByte is called with ack = false for the byte at index len(r)-1 only
C31_NackOnlyOnLast ==
  call.op = "8x8" =>
    \A i \in Reads(log) :
      log[i].ack = FALSE <=> ReadIndex(log, i) = call.rlen - 1

\* C31: in every 8 bit transaction, faulted ones included, ReadByte is
\* called with ack = false only for the byte at index len(r)-1, and when
\* Stop is called after one or more ReadByte calls, the last ReadByte call
\* before that Stop was made with ack = false.
C31_AckDiscipline ==
  call.op = "8x8" =>
    /\ \A i \in Reads(log) :
         log[i].ack = FALSE => ReadIndex(log, i) = call.rlen - 1
    /\ \A s \in Stops(log) :
         (\E i \in Reads(log) : i < s) =>
           log[LastReadBefore(log, s)].ack = FALSE

\* a ReadByte called with ack = true faults and Stop is the next call
C31_WitnessAckedReadThenStop ==
  /\ pc = "done" /\ call.op = "8x8" /\ call.rlen = 2
  /\ Len(log) >= 2
  /\ log[Len(log)].typ = "STOP"
  /\ log[Len(log) - 1].typ = "READ"
  /\ log[Len(log) - 1].ack = TRUE
  /\ log[Len(log) - 1].err # "nil"

\* the bytes of the caller's own w that the emulated 16 bit transaction
\* wrote with success: the data bytes follow start, address byte, address
\* high and address low
OwnWritten(l) ==
  Cardinality({ i \in 5..(4 + Len(call.w)) :
                  i <= Len(l) /\ l[i].typ = "WRITE" /\ l[i].err = "nil" })

\* C32: when the delegated 8 bit transaction faults, the emulated 16 bit
\* transaction reports max(delegated nw - 1, 0) bytes written: never a
\* negative count, 0 when the fault came at or before the address low byte
\* and 0 when it came on the caller's first data byte, and otherwise the
\* number of the caller's own bytes written before the fault.
C32_FaultCount16x8 ==
  (pc = "done" /\ call.op = "16x8" /\ res.err # "nil") =>
    /\ res.nw = (IF nw - 1 > 0 THEN nw - 1 ELSE 0)
    /\ res.nw >= 0
    /\ (Faults(log) # {} /\ FirstFault(log) <= 5) => res.nw = 0
    /\ res.nw = OwnWritten(log)
    /\ res.nr = nr

\* the fault comes on the caller's second data byte
C32_Witness ==
  /\ pc = "done" /\ call.op = "16x8" /\ res.err # "nil"
  /\ Len(call.w) = 2
  /\ Faults(log) # {} /\ FirstFault(log) = 6
  /\ nw = 2 /\ res.nw = 1

\* the fault comes on the caller's first data byte
C32_WitnessFirstData ==
  /\ pc = "done" /\ call.op = "16x8" /\ res.err # "nil"
  /\ Len(call.w) = 2
  /\ Faults(log) # {} /\ FirstFault(log) = 5
  /\ nw = 1 /\ res.nw = 0

\* the fault comes on the address low byte
C32_WitnessAddrLow ==
  /\ pc = "done" /\ call.op = "16x8" /\ res.err # "nil"
  /\ Faults(log) # {} /\ FirstFault(log) = 4
  /\ log[4].b = Lo8(call.regaddr)
  /\ nw = 0 /\ res.nw = 0

\* the powers of two up to 2^20, written without the loop of ispow2
PowersOfTwo == { 2^k : k \in 0..20 }

\* the configurations and addresses the documentation of NewEEPROM24 accepts
Accepted(a, c) ==
  /\ c.PageSize <= c.Size
  /\ c.Size \in PowersOfTwo
  /\ c.PageSize \in PowersOfTwo
  /\ c.Size <= 2^19
  /\ GetAddrLen(a) = 7

\* C13: NewEEPROM24 returns a driver, its file pointer 0, if and only if
\* pageSize <= size, size and pageSize are powers of two, size <= 2^19 and
\* the device address is 7 bits wide; in every other case (size 0 and
\* pageSize 0 included) it returns an error and no driver, so that no call
\* is ever made.
C13_NewEEPROM24 ==
  /\ p = 0
  /\ [](newerr = "nil" <=> Accepted(devaddr, conf))
  /\ [](newerr # "nil" => (p = 0 /\ epc = "idle" /\ trs = <<>>))

C13_Witness ==
  /\ newerr = "nil" /\ conf = [Size |-> 524288, PageSize |-> 256]
  /\ epc = "write" /\ Len(trs) = 1

C13_WitnessZero ==
  /\ newerr # "nil" /\ conf = [Size |-> 0, PageSize |-> 0]
  /\ GetAddrLen(devaddr) = 7

C13_WitnessAddr10 ==
  /\ newerr # "nil" /\ Accepted([kind |-> "Addr7", raw |-> 80], conf)
  /\ GetAddrLen(devaddr) = 10

\* the register address width of a transaction
Format(tr) == IF tr.op = "8x8" THEN 8 ELSE 16

\* C14: the addressing mode is a function of the configured size only:
\* every transaction Read or Write issues has an 8 bit register address
\* when size <= 2048 and a 16 bit register address when size > 2048, so
\* the transactions of one driver never mix the two.
C14_ModeBySize ==
  \A i \in 1..Len(trs) :
    /\ trs[i].by \in {"Read", "Write"}
    /\ conf.Size <= 2048 => Format(trs[i]) = 8
    /\ conf.Size > 2048 => Format(trs[i]) = 16

C14_Witness ==
  /\ conf.Size = 2048
  /\ Len(trs) = 2 /\ trs[1].by = "Write" /\ Format(trs[2]) = 8

C14_WitnessLarge ==
  /\ conf.Size = 4096
  /\ Len(trs) = 1 /\ trs[1].by = "Read" /\ Format(trs[1]) = 16
  /\ eres.err = "nil"

\* C15: banking rule: every transaction Read or Write issues with the file
\* pointer at p has the device address base + (p >> 8) and the register
\* address p mod 256 with small addresses, and the device address
\* base + (p >> 16) and the register address p mod 65536 with big
\* addresses, for every 7 bit base address and every reachable p.
C15_BankingRule ==
  \A i \in 1..Len(trs) :
    LET o == trs[i].at
        base == GetBaseAddr(devaddr)
    IN  IF conf.Size <= 2048
          THEN /\ GetBaseAddr(trs[i].addr) = base + (o \div 256)
               /\ trs[i].regaddr = o % 256
          ELSE /\ GetBaseAddr(trs[i].addr) = base + (o \div 65536)
               /\ trs[i].regaddr = o % 65536

\* what the code does keep: the rule modulo 128, the width of the address
C15_BankingRuleMod128 ==
  \A i \in 1..Len(trs) :
    LET o == trs[i].at
        base == GetBaseAddr(devaddr)
    IN  /\ GetAddrLen(trs[i].addr) = 7
        /\ IF conf.Size <= 2048
             THEN /\ GetBaseAddr(trs[i].addr) = (base + (o \div 256)) % 128
                  /\ trs[i].regaddr = o % 256
             ELSE /\ GetBaseAddr(trs[i].addr) = (base + (o \div 65536)) % 128
                  /\ trs[i].regaddr = o % 65536

\* the rule as stated, for a base address with room for the banks
C15_WitnessInRange ==
  /\ GetBaseAddr(devaddr) = 80 /\ conf.Size = 524288
  /\ Len(trs) = 1 /\ trs[1].at = 7 * 65536 + 2
  /\ GetBaseAddr(trs[1].addr) = 87 /\ trs[1].regaddr = 2

\* base address 127, file pointer 256: the transaction goes to address 0
C15_WitnessWrapped ==
  /\ GetBaseAddr(devaddr) = 127 /\ conf.Size = 512
  /\ Len(trs) = 1 /\ trs[1].at = 256
  /\ GetBaseAddr(trs[1].addr) = 0

Min(x, y) == IF x <= y THEN x ELSE y

\* the bytes the transactions before the i-th of the running call carried
RECURSIVE Off(_)
Off(i) == IF i <= 1 THEN 0 ELSE Off(i - 1) + Len(trs[i - 1].w)

\* C16: Write chunking: the k-th transaction of a Write of buffer b begun at
\* file pointer p0 is issued at p0 + (bytes of the chunks before it) and
\* carries exactly min(remaining input, pageSize - (pointer mod pageSize))
\* bytes, which are the next slice of b; when the Write ends without a
\* fault the chunks together are the prefix of b of length
\* min(len(b), size - p0).
C16_WriteChunking ==
  /\ \A i \in WriteTrs :
       LET o == trs[1].at + Off(i)
           rem == origsize - Off(i)
           k == Len(trs[i].w)
       IN  /\ trs[i].at = o
           /\ k = Min(rem, conf.PageSize - (o % conf.PageSize))
           /\ trs[i].w = SubSeq(Buf(origsize), Off(i) + 1, Off(i) + k)
  /\ (epc = "done" /\ eres.of = "Write" /\ eres.err \in {"nil", "EOF"}) =>
       LET p0 == IF trs = <<>> THEN p ELSE trs[1].at
       IN  Off(Len(trs) + 1) = Min(origsize, conf.Size - p0)

\* page size 8, file pointer 6, 4 bytes: 2 bytes at 6, then 2 bytes at 8
C16_Witness ==
  /\ conf.PageSize = 8 /\ origsize = 4
  /\ epc = "done" /\ eres = [n |-> 4, err |-> "nil", of |-> "Write"]
  /\ Len(trs) = 2
  /\ trs[1].at = 6 /\ trs[1].w = <<17, 18>>
  /\ trs[2].at = 8 /\ trs[2].w = <<19, 20>>

\* cut by the end of the array: 3 of 6 bytes
C16_WitnessCut ==
  /\ conf = [Size |-> 16, PageSize |-> 4] /\ origsize = 6
  /\ epc = "done" /\ eres = [n |-> 3, err |-> "EOF", of |-> "Write"]
  /\ Len(trs) = 1 /\ trs[1].at = 13 /\ trs[1].w = <<17, 18, 19>>

\* the outcomes that are faults of a transaction
TrFaults == BusFaults \cup {NoSuchDevice}

\* where the file pointer stood when the Read that has returned was called
ReadFrom == IF trs = <<>> THEN p ELSE trs[1].at

\* C18: end of stream in Read: with the file pointer p < size and a buffer
\* of at least size - p bytes, a Read whose transaction does not fault
\* returns exactly size - p bytes and nil (not end of stream) and leaves the
\* file pointer at size; a Read with a non-empty buffer called with the
\* file pointer at size returns 0 bytes and end of stream, issues no
\* transaction and leaves the file pointer at size.
C18_ReadEndOfStream ==
  (epc = "done" /\ eres.of = "Read") =>
    /\ (/\ ReadFrom < conf.Size
        /\ origsize >= conf.Size - ReadFrom
        /\ eres.err \notin TrFaults) =>
         /\ eres.n = conf.Size - ReadFrom
         /\ eres.err = "nil"
         /\ p = conf.Size
         /\ Len(trs) = 1 /\ trs[1].rlen = conf.Size - ReadFrom
    /\ (ReadFrom = conf.Size /\ origsize > 0) =>
         /\ eres.n = 0
         /\ eres.err = "EOF"
         /\ trs = <<>>
         /\ p = conf.Size

\* file pointer at S - 3, a buffer of 6 bytes: 3 bytes and nil
C18_Witness ==
  /\ epc = "done" /\ eres = [n |-> 3, err |-> "nil", of |-> "Read"]
  /\ conf.Size = 16 /\ origsize = 6
  /\ trs # <<>> /\ trs[1].at = 13 /\ p = 16

\* and then 0 bytes and end of stream
C18_WitnessSecond ==
  /\ epc = "done" /\ eres = [n |-> 0, err |-> "EOF", of |-> "Read"]
  /\ conf.Size = 16 /\ origsize = 6
  /\ trs = <<>> /\ p = 16

\* where the file pointer stood when the Write that has returned was called
WriteFrom == IF trs = <<>> THEN p ELSE trs[1].at

\* C19: end of stream in Write: with the file pointer p <= size and a
\* buffer longer than size - p, a Write none of whose transactions faults
\* writes exactly size - p bytes, returns that count together with end of
\* stream, and leaves the file pointer at size; a Write of a non-empty
\* buffer called with the file pointer at size returns 0 bytes and end of
\* stream, issues no transaction and leaves the file pointer at size.
C19_WriteEndOfStream ==
  (epc = "done" /\ eres.of = "Write") =>
    /\ (/\ WriteFrom <= conf.Size
        /\ origsize > conf.Size - WriteFrom
        /\ eres.err \notin TrFaults) =>
         /\ eres.n = conf.Size - WriteFrom
         /\ eres.err = "EOF"
         /\ p = conf.Size
         /\ Off(Len(trs) + 1) = conf.Size - WriteFrom
    /\ (WriteFrom = conf.Size /\ origsize > 0) =>
         /\ eres.n = 0
         /\ eres.err = "EOF"
         /\ trs = <<>>
         /\ p = conf.Size

\* file pointer at S - 4, a buffer of 6 bytes: 4 bytes and end of stream
C19_Witness ==
  /\ epc = "done" /\ eres = [n |-> 4, err |-> "EOF", of |-> "Write"]
  /\ conf.Size = 512 /\ origsize = 6
  /\ trs # <<>> /\ trs[1].at = 508 /\ p = 512

\* a further Write: 0 bytes and end of stream
C19_WitnessSecond ==
  /\ epc = "done" /\ eres = [n |-> 0, err |-> "EOF", of |-> "Write"]
  /\ conf.Size = 512 /\ origsize = 6
  /\ trs = <<>> /\ p = 512

\* C20: a Write whose buffer fits (file pointer + len(buffer) <= size, the
\* buffer ending exactly at size and the empty buffer included) and none
\* of whose transactions faults returns len(buffer) and nil, not end of
\* stream, and advances the file pointer by exactly len(buffer).
C20_WriteFits ==
  (/\ epc = "done" /\ eres.of = "Write"
   /\ WriteFrom + origsize <= conf.Size
   /\ eres.err \notin TrFaults) =>
    /\ eres.n = origsize
    /\ eres.err = "nil"
    /\ p = WriteFrom + origsize

\* the buffer ends exactly at size
C20_Witness ==
  /\ epc = "done" /\ eres = [n |-> 4, err |-> "nil", of |-> "Write"]
  /\ conf = [Size |-> 512, PageSize |-> 8] /\ origsize = 4
  /\ Len(trs) = 1 /\ trs[1].at = 508 /\ p = 512

\* the empty buffer, at the end of the array
C20_WitnessEmpty ==
  /\ epc = "done" /\ eres = [n |-> 0, err |-> "nil", of |-> "Write"]
  /\ conf.Size = 512 /\ origsize = 0
  /\ trs = <<>> /\ p = 512

\* C21: when a transaction Write issued reports a fault, it is the last
\* transaction of that call, the call has returned, and it returned that
\* fault together with the bytes of the chunks completed before plus the
\* bytes-written the faulted transaction reported.
C21_WriteFault ==
  \A i \in WriteTrs :
    trs[i].res.err # "nil" =>
      /\ i = Len(trs)
      /\ epc = "done"
      /\ eres.of = "Write"
      /\ eres.err = trs[i].res.err
      /\ eres.n = Off(i) + trs[i].res.nw

\* the second chunk faults after one of its bytes: 2 + 1 bytes reported
C21_Witness ==
  /\ conf.PageSize = 8 /\ origsize = 6
  /\ Len(trs) = 2 /\ trs[1].at = 6 /\ trs[2].at = 8
  /\ trs[2].res = [nw |-> 1, nr |-> 0, err |-> NACKReceived]
  /\ eres = [n |-> 3, err |-> NACKReceived, of |-> "Write"]
  /\ p = 8

\* C22: a Read called with min(pointer + len(buffer), size) > pointer
\* issues exactly one transaction, its write phase empty and its read
\* phase of exactly min(len(buffer), size - pointer) bytes, advances the
\* file pointer by the bytes-read that transaction reported and returns that
\* count with the transaction's outcome, whether the transaction succeeds
\* or faults part-way.
C22_ReadOneTransaction ==
  (/\ epc = "done" /\ eres.of = "Read"
   /\ Min(ReadFrom + origsize, conf.Size) > ReadFrom) =>
    /\ Len(trs) = 1
    /\ trs[1].by = "Read"
    /\ trs[1].w = <<>>
    /\ trs[1].rlen = Min(origsize, conf.Size - ReadFrom)
    /\ p = ReadFrom + trs[1].res.nr
    /\ eres.n = trs[1].res.nr
    /\ eres.err = trs[1].res.err

\* the transaction faults after one of three bytes
C22_Witness ==
  /\ epc = "done" /\ eres = [n |-> 1, err |-> "BusFault", of |-> "Read"]
  /\ conf.Size = 4096 /\ origsize = 3
  /\ Len(trs) = 1 /\ trs[1].at = 2 /\ trs[1].rlen = 3
  /\ trs[1].res = [nw |-> 0, nr |-> 1, err |-> "BusFault"]
  /\ p = 3

\* the transaction succeeds
C22_WitnessSuccess ==
  /\ epc = "done" /\ eres = [n |-> 3, err |-> "nil", of |-> "Read"]
  /\ conf.Size = 16 /\ origsize = 6
  /\ Len(trs) = 1 /\ trs[1].at = 13 /\ trs[1].rlen = 3
  /\ p = 16

\* a Seek has returned
SeekDone == epc = "done" /\ eres.of = "Seek"

\* the candidate offset of the Seek that has returned, for a recognised
\* whence: absolute, relative to the file pointer, relative to the end
Candidate ==
  IF seek.whence = 0 THEN seek.offset
  ELSE IF seek.whence = 1 THEN seek.from + seek.offset
  ELSE conf.Size + seek.offset

\* C23: Seek with whence absolute, relative to the current pointer,
\* relative to the end computes the candidate offset, pointer + offset,
\* size + offset; whenever 0 <= candidate <= size (candidate = size
\* included) it sets the file pointer to the candidate and returns the value
\* the pointer had before the call, with no fault.
C23_SeekSuccess ==
  (/\ SeekDone
   /\ seek.whence \in {0, 1, 2}
   /\ 0 <= Candidate /\ Candidate <= conf.Size) =>
    /\ p = Candidate
    /\ eres.n = seek.from
    /\ eres.err = "nil"

\* relative to the end, to the end itself, from elsewhere
C23_Witness ==
  /\ SeekDone
  /\ conf.Size = 512
  /\ seek = [offset |-> 0, whence |-> 2, from |-> 8]
  /\ p = 512 /\ eres.n = 8

\* relative to the file pointer, backwards
C23_WitnessRelative ==
  /\ SeekDone
  /\ conf.Size = 512
  /\ seek = [offset |-> -4, whence |-> 1, from |-> 260]
  /\ p = 256 /\ eres.n = 260

\* C24: Seek fails with the invalid-argument outcome when whence is none of
\* the three recognised values, with the negative-position outcome when the
\* candidate is negative and with the out-of-range outcome when the
\* candidate exceeds size; in each case the file pointer is left as it was
\* and its unchanged value is returned.
C24_SeekFailure ==
  SeekDone =>
    /\ seek.whence \notin {0, 1, 2} => eres.err = "ErrWhence"
    /\ (seek.whence \in {0, 1, 2} /\ Candidate < 0) =>
         eres.err = "ErrNegative"
    /\ (seek.whence \in {0, 1, 2} /\ Candidate > conf.Size) =>
         eres.err = "ErrBeyondEnd"
    /\ eres.err # "nil" => (p = seek.from /\ eres.n = seek.from)

C24_Witness ==
  /\ SeekDone
  /\ conf.Size = 512
  /\ seek = [offset |-> 513, whence |-> 0, from |-> 8]
  /\ eres = [n |-> 8, err |-> "ErrBeyondEnd", of |-> "Seek"]
  /\ p = 8

C24_WitnessNegative ==
  /\ SeekDone
  /\ conf.Size = 512
  /\ seek = [offset |-> -10, whence |-> 1, from |-> 8]
  /\ eres = [n |-> 8, err |-> "ErrNegative", of |-> "Seek"]
  /\ p = 8

C24_WitnessWhence ==
  /\ SeekDone
  /\ seek.whence = 3 /\ seek.from = 8
  /\ eres = [n |-> 8, err |-> "ErrWhence", of |-> "Seek"]
  /\ p = 8

\* C25: Seek follows the contract of io.Seeker, which the driver is
\* declared to implement: on success the value it returns is the new
\* offset of the file pointer from the start of the array.
C25_SeekReturnsNewOffset ==
  (SeekDone /\ eres.err = "nil") => eres.n = p

\* Seek(256, 0) with the file pointer at 8 returns 8, not 256
C25_WitnessOldOffset ==
  /\ SeekDone /\ eres.err = "nil"
  /\ seek = [offset |-> 256, whence |-> 0, from |-> 8]
  /\ p = 256 /\ eres.n = 8

\* C26: for every configuration NewEEPROM24 accepts and every sequence of
\* Read, Write and Seek calls made one after the other, under every fault
\* pattern of the generic executors, 0 <= file pointer <= size in every
\* reachable state, between the chunks of a Write included, so that the
\* abort of Write (file pointer > size) is never reached.
C26_PointerInRange ==
  newerr = "nil" =>
    /\ 0 <= p /\ p <= conf.Size
    /\ epc # "panic"

\* between two chunks of a Write, the file pointer at the end of the array
C26_Witness ==
  /\ newerr = "nil" /\ epc = "write"
  /\ p = conf.Size /\ Len(b) > 0 /\ Len(trs) = 1
  /\ conf.Size = 2048

\* after a Read that faulted part-way, next to the end of the array
C26_WitnessReadFault ==
  /\ newerr = "nil" /\ epc = "done" /\ eres.of = "Read"
  /\ eres.err = NACKReceived /\ eres.n = 2
  /\ p = conf.Size - 1

\* C27: Read reports end of stream (with zero bytes) only when the file
\* pointer is at the end of the array when Read is called; a Read called
\* with the file pointer below size, with a buffer of length zero too, does
\* not report end of stream.
C27_EndOfStreamOnlyAtEnd ==
  (epc = "done" /\ eres.of = "Read" /\ eres.err = "EOF") =>
    ReadFrom = conf.Size

\* what the code keeps: end of stream is reported exactly when no byte is
\* asked for or none is left, and then with zero bytes and no transaction
C27_EndOfStreamIffNothingToRead ==
  (epc = "done" /\ eres.of = "Read") =>
    (eres.err = "EOF" <=> (origsize = 0 \/ ReadFrom = conf.Size))
      /\ (eres.err = "EOF" => (eres.n = 0 /\ trs = <<>>))

\* an empty buffer at offset 0 of an array of 16 bytes: end of stream
C27_WitnessEmptyBuffer ==
  /\ epc = "done" /\ eres = [n |-> 0, err |-> "EOF", of |-> "Read"]
  /\ conf.Size = 16 /\ origsize = 0 /\ p = 0

\* C33: for every Write call, whatever its outcome (success, end of stream
\* or a transaction fault with a partial count), the file pointer after the
\* call is the file pointer before the call plus the count the call returned.
C33_PointerFollowsCount ==
  (epc = "done" /\ eres.of = "Write") => p = WriteFrom + eres.n

\* a Write without a fault leaves the file pointer behind the bytes it counts
C33_PointerFollowsCountNoFault ==
  (epc = "done" /\ eres.of = "Write" /\ eres.err \notin TrFaults)
    => p = WriteFrom + eres.n

\* the second chunk faults after one of its bytes: 3 bytes are reported and
\* the file pointer has moved by the 2 bytes of the first chunk
C33_WitnessPartialChunk ==
  /\ epc = "done" /\ eres.of = "Write" /\ eres.err \in TrFaults
  /\ Len(trs) = 2 /\ trs[1].at = 6
  /\ trs[2].res.nw = 1
  /\ eres.n = 3 /\ p = 8

\* C34: for every configuration NewEEPROM24 accepts, no transaction of
\* Write spans a boundary between device addresses: a transaction of n bytes
\* at offset o has floor(o / 256) = floor((o + n - 1) / 256) with small
\* addresses and floor(o / 65536) = floor((o + n - 1) / 65536) with big
\* addresses, pages wider than the span of a device address included.
C34_NoBankCrossing ==
  \A i \in WriteTrs :
    trs[i].at \div BankSpan(conf)
      = (trs[i].at + Len(trs[i].w) - 1) \div BankSpan(conf)

\* no transaction spans such a boundary when the page is no wider than the
\* span of a device address
C34_NoBankCrossingNarrowPage ==
  conf.PageSize <= BankSpan(conf) =>
    \A i \in WriteTrs :
      trs[i].at \div BankSpan(conf)
        = (trs[i].at + Len(trs[i].w) - 1) \div BankSpan(conf)

\* size 2048, page size 512: one transaction of 4 bytes at 254
C34_WitnessWidePage ==
  /\ conf = [Size |-> 2048, PageSize |-> 512]
  /\ epc = "done" /\ eres = [n |-> 4, err |-> "nil", of |-> "Write"]
  /\ Len(trs) = 1 /\ trs[1].at = 254 /\ Len(trs[1].w) = 4
  /\ trs[1].addr = TrDevAddr(0, conf, devaddr)

\* the device address increment of a transaction, read off the device
\* address it was issued with
IncOf(tr) == (tr.addr.raw - GetBaseAddr(devaddr)) % 256

\* C35: no transaction is issued with the file pointer at the size of the
\* array, so the device address increment of every transaction of Read and
\* Write is at most (size - 1) >> 8 with small addresses and
\* (size - 1) >> 16 with big addresses, and so at most 7, three bits, for
\* every configuration NewEEPROM24 accepts.
C35_BankIncrementBound ==
  \A i \in 1..Len(trs) :
    /\ trs[i].at < conf.Size
    /\ IncOf(trs[i]) <= (conf.Size - 1) \div BankSpan(conf)
    /\ IncOf(trs[i]) <= 7

\* the largest array, a Write in its last bank
C35_Witness ==
  /\ conf.Size = MAX_EEPROM_SIZE
  /\ Len(trs) = 1 /\ trs[1].by = "Write"
  /\ trs[1].at = 7 * 65536 + 1
  /\ IncOf(trs[1]) = 7

\* small addresses, a Read in the last bank up to the end of the array
C35_WitnessSmallRead ==
  /\ conf.Size = 2048
  /\ Len(trs) = 1 /\ trs[1].by = "Read"
  /\ trs[1].at = 2046 /\ trs[1].rlen = 2
  /\ IncOf(trs[1]) = 7

\* Read and Write called with the file pointer at the size of the array
C35_WitnessAtSize ==
  /\ epc = "done" /\ eres.of \in {"Read", "Write"}
  /\ origsize > 0 /\ p = conf.Size /\ trs = <<>>
  /\ eres.err = "EOF"

\* C36: the driver has no lock of its own: when two Write calls on one
\* driver are interleaved step by step (loop test, transaction, advance of
\* the file pointer), a state with the file pointer beyond the size of the
\* array, and the panic on it, is reachable; when no Write is called while
\* another is running, it is not.
C36_SerializedInRange ==
  ~overlap => (p <= conf.Size /\ NoPanic)

\* interleaved: both callers pass the loop test before either advances
C36_Witness ==
  /\ overlap
  /\ p > conf.Size
  /\ \E t \in Writers : wr[t].pc = "panic"

\* serialized: both callers have written, up to the end of the array
C36_WitnessSerialized ==
  /\ ~overlap
  /\ p = conf.Size
  /\ wr[1].pc = "done" /\ wr[1].err = "nil" /\ wr[1].n = 2
  /\ wr[2].pc = "done" /\ wr[2].err = "EOF"

\* the pages that the offsets lo .. hi-1 lie in
PagesOverlapped(lo, hi, c) ==
  IF hi <= lo THEN 0
  ELSE ((hi - 1) \div c.PageSize) - (lo \div c.PageSize) + 1

\* every 8 bit transaction returns, after at most k + len(w) + len(r) calls
\* of the bus master; every Write returns, after at most one transaction
\* for each page overlapped by [pointer, min(pointer + len(buffer), size)),
\* and every iteration of its loop advances the file pointer by a byte or
\* more
TerminatesWithin(k) ==
  /\ [](pc # "idle" => Len(log) <= k + Len(w) + Len(r))
  /\ []((epc \in {"write", "done"} /\ eres.of = "Write") =>
          Len(trs) <= PagesOverlapped(WriteFrom,
                                      Min(WriteFrom + origsize, conf.Size), conf))
  /\ [](eres.of = "Write" =>
          \A i \in 1..Len(trs) :
            /\ i < Len(trs) => trs[i + 1].at >= trs[i].at + 1
            /\ (i = Len(trs) /\ trs[i].res.err = "nil") => p >= trs[i].at + 1)
  /\ ((pc \notin {"idle", "done"}) ~> (pc = "done"))
  /\ ((epc = "write") ~> (epc = "done"))

\* C39 as stated: termination, every call of the bus master returning: an
\* 8 bit transaction returns after at most 5 + len(w) + len(r) calls of the
\* bus master, and a Write returns after at most one transaction for each
\* page overlapped by [pointer, min(pointer + len(buffer), size)), every
\* iteration advancing the file pointer by at least one byte.
C39_TerminatesWithin5 == TerminatesWithin(5)

\* C39, amended: the same with at most 6 + len(w) + len(r) calls of the bus
\* master: start, address byte, register address, len(w) bytes, start,
\* address byte, len(r) bytes, stop.
C39_Termination == TerminatesWithin(6)

\* a Read of two bytes: 8 calls of the bus master
C39_Witness ==
  /\ epc = "read" /\ pc = "done" /\ res.err = "nil"
  /\ Len(w) = 0 /\ Len(r) = 2
  /\ Len(log) = 8

\* a Write of 6 bytes at 3, page size 4: three pages, three transactions
C39_WitnessWrite ==
  /\ epc = "done" /\ eres = [n |-> 6, err |-> "nil", of |-> "Write"]
  /\ Len(trs) = 3 /\ trs[1].at = 3
  /\ PagesOverlapped(3, 9, conf) = 3

\* big addresses: the address low byte is one of the bytes of w
C39_WitnessBig ==
  /\ epc = "write" /\ pc = "done" /\ call.op = "16x8" /\ res.err = "nil"
  /\ Len(call.w) = 4 /\ Len(w) = 5
  /\ Len(log) = 4 + Len(w)

\* what the candidate position of the returned Seek is relative to
SeekBase ==
  CASE seek.whence = 0 -> 0
    [] seek.whence = 1 -> seek.from
    [] OTHER -> conf.Size

\* the candidate base + offset, taken as integers without bound, is above
\* the size of the array: offset > size - base, with 0 <= base <= size
MathAboveSize == Gt64(off64, conf.Size - SeekBase)

\* the candidate base + offset, taken as integers without bound, is
\* negative: offset < -base
MathNegative ==
  /\ IsNeg64(off64)
  /\ (off64 = MinInt64 \/ Gt64(Neg64(off64), SeekBase))

Seek64Done == epc = "done" /\ eres.of = "Seek" /\ seek.whence \in {0, 1, 2}

\* C40: for every int64 offset, the candidate being computed in wrapping
\* 64 bit arithmetic as the code does, Seek never sets the file pointer
\* outside [0, size], reports the out-of-range error whenever the candidate
\* taken without bound is above size, and the negative-position error
\* whenever the candidate taken without bound is negative.
C40_SeekWide ==
  /\ p \in 0..conf.Size
  /\ Seek64Done =>
       /\ MathAboveSize => eres.err = "ErrBeyondEnd"
       /\ MathNegative => eres.err = "ErrNegative"

\* what holds of Seek for every int64 offset: the file pointer stays in
\* [0, size]; a candidate negative without bound is reported as negative; a
\* candidate above size without bound is refused, as beyond the end or, when
\* the sum wraps, as negative, and the file pointer stays where it was
C40_SeekWideRefused ==
  /\ p \in 0..conf.Size
  /\ Seek64Done =>
       /\ MathNegative => eres.err = "ErrNegative"
       /\ MathAboveSize =>
            /\ eres.err \in {"ErrBeyondEnd", "ErrNegative"}
            /\ p = seek.from

\* Seek(MaxInt64, 1) with the file pointer at 1: the sum wraps to MinInt64
C40_WitnessWrapped ==
  /\ Seek64Done
  /\ seek.whence = 1 /\ seek.from = 1 /\ off64 = MaxInt64
  /\ MathAboveSize
  /\ eres.err = "ErrNegative" /\ p = 1

\* Seek(MinInt64, 2): no wrap
C40_WitnessMin ==
  /\ Seek64Done
  /\ seek.whence = 2 /\ off64 = MinInt64
  /\ MathNegative /\ eres.err = "ErrNegative"

(***************************************************************************)
(* Properties of the driver on the simulated device (SpecDev).             *)
(***************************************************************************)
\* the last Write call made on the device
LastWrite == wlog[Len(wlog)]

\* a Read has returned that was called at the offset of the last Write with
\* a buffer as long as that Write's, and that Write fitted the array
ReadBackDone ==
  /\ epc = "done" /\ eres.of = "Read"
  /\ wlog # <<>>
  /\ LastWrite.at + LastWrite.len <= conf.Size
  /\ origsize = LastWrite.len
  /\ IF trs = <<>> THEN p = LastWrite.at ELSE trs[1].at = LastWrite.at

\* C17: round trip on the fault free simulated device, with small and with
\* big addresses: after Seek(O), Write(B) with O + len(B) <= size, Seek(O),
\* a Read into a buffer of len(B) bytes returns len(B) bytes, and they are
\* B, also when [O, O + len(B)) spans a page boundary or a boundary
\* between device addresses.
C17_RoundTrip ==
  ReadBackDone =>
    /\ eres.n = LastWrite.len
    /\ rbuf = Buf(LastWrite.len)

\* small addresses, across the boundary between device addresses
C17_Witness ==
  /\ ReadBackDone
  /\ conf.Size = 512
  /\ LastWrite = [at |-> 255, len |-> 3]
  /\ rbuf = <<17, 18, 19>>
  /\ MemAt(mem, 256) = 18

\* big addresses, across a page boundary
C17_WitnessLargePage ==
  /\ ReadBackDone
  /\ conf.Size = 131072
  /\ LastWrite = [at |-> 7, len |-> 3]
  /\ rbuf = <<17, 18, 19>>
  /\ trs[1].op = "16x8"

\* big addresses, across the boundary between device addresses
C17_WitnessLargeBank ==
  /\ ReadBackDone
  /\ conf.Size = 131072
  /\ LastWrite = [at |-> 65535, len |-> 2]
  /\ rbuf = <<17, 18>>
  /\ GetBaseAddr(trs[1].addr) = 80

\* C38: frame conditions of the driver: Seek issues no transaction and
\* changes nothing but the file pointer; Read issues only transactions with
\* an empty write phase and so leaves the memory of the simulated device as
\* it was; Write issues only transactions with an empty read phase; no
\* operation changes the configuration or the base device address.
C38_Frame ==
  [][/\ conf' = conf
     /\ devaddr' = devaddr
     /\ newerr' = newerr
     /\ m' = m
     /\ (epc = "idle" /\ eres'.of = "Seek") =>
          (trs' = <<>> /\ mem' = mem /\ nlog' = nlog)
     /\ (epc = "idle" /\ eres'.of = "Read") =>
          /\ \A i \in 1..Len(trs') : trs'[i].by = "Read" /\ trs'[i].w = <<>>
          /\ mem' = mem
     /\ eres'.of = "Write" =>
          \A i \in 1..Len(trs') : trs'[i].by = "Write" /\ trs'[i].rlen = 0
    ]_vars

\* a Read of bytes a Write has put into the device before
C38_Witness ==
  /\ epc = "done" /\ eres.of = "Read" /\ eres.n = 3
  /\ DOMAIN mem # {}
  /\ Len(trs) = 1 /\ trs[1].w = <<>> /\ trs[1].rlen = 3

\* a Seek that moves the file pointer, after a Write
C38_WitnessSeek ==
  /\ epc = "done" /\ eres.of = "Seek" /\ eres.err = "nil"
  /\ DOMAIN mem # {}
  /\ p # seek.from /\ trs = <<>>

\* a Write of two transactions
C38_WitnessWrite ==
  /\ epc = "done" /\ eres.of = "Write" /\ eres.err = "nil"
  /\ Len(trs) = 2 /\ trs[1].rlen = 0 /\ trs[2].rlen = 0
  /\ DOMAIN mem # {}

(***************************************************************************)
(* Properties of NewTransactor (SpecCap).                                  *)
(***************************************************************************)
\* the one native call the transaction in progress is, as the caller made it
NativeCall == NItem(call.op, call.addr, call.regaddr, call.w, call.rlen)

\* the four operations of I2CMaster
BusOps == {"START", "STOP", "WRITE", "READ"}

\* C12: when the bus master handed to NewTransactor implements the 8 bit
\* (the 16 bit) transaction itself, every 8 bit (16 bit) transaction is one
\* call of that native operation, with the caller's arguments, and no
\* start, stop, writeByte or readByte is called on the bus master; when it
\* implements neither, no native operation is called and every transaction
\* with a 7 bit address is carried out by calls of the four operations.
C12_CapabilityRouting ==
  /\ (call.op = "8x8" /\ m.t8) => (log = <<>> /\ nlog = <<NativeCall>>)
  /\ (call.op = "16x8" /\ m.t16) => (log = <<>> /\ nlog = <<NativeCall>>)
  /\ (~m.t8 /\ ~m.t16) =>
       /\ nlog = <<>>
       /\ \A i \in 1..Len(log) : log[i].typ \in BusOps
       /\ (pc = "done" /\ GetAddrLen(call.addr) = 7) => Len(log) >= 1

C12_Witness ==
  /\ m = PVT24
  /\ pc = "done" /\ call.op = "16x8" /\ res.err = "nil"
  /\ Len(call.w) = 2 /\ call.rlen = 2
  /\ nlog = <<NativeCall>> /\ log = <<>>

C12_WitnessNative8 ==
  /\ m = [t8 |-> TRUE, t16 |-> FALSE]
  /\ pc = "done" /\ call.op = "8x8" /\ res.err = "nil"
  /\ nlog = <<NativeCall>> /\ log = <<>>

C12_WitnessPlain ==
  /\ m = PlainMaster
  /\ pc = "done" /\ call.op = "16x8" /\ res.err = "nil"
  /\ Len(call.w) = 2 /\ call.rlen = 2
  /\ nlog = <<>> /\ Len(log) = 11

C12_WitnessMixed ==
  /\ m = [t8 |-> FALSE, t16 |-> TRUE]
  /\ pc = "done" /\ call.op = "8x8" /\ res.err = "nil"
  /\ nlog = <<>> /\ Len(log) >= 4

\* C37: when the bus master implements the 8 bit transaction itself and not
\* the 16 bit one, every 16 bit transaction through NewTransact16x8 is
\* exactly one call of the master's own 8 bit operation, with the address
\* high byte as register address and the address low byte followed by the
\* caller's bytes as write buffer, and no start, stop, writeByte or
\* readByte is called on the bus master.
C37_DelegateToNative8x8 ==
  (m = [t8 |-> TRUE, t16 |-> FALSE] /\ call.op = "16x8") =>
    /\ nlog = <<NItem("8x8", call.addr, call.regaddr \div 256,
                      <<call.regaddr % 256>> \o call.w, call.rlen)>>
    /\ log = <<>>
    /\ pc = "done" => res = [nw |-> AdjustNw(nw), nr |-> nr, err |-> err]

C37_Witness ==
  /\ m = [t8 |-> TRUE, t16 |-> FALSE]
  /\ pc = "done" /\ call.op = "16x8" /\ res.err = "nil"
  /\ call.regaddr = 4660
  /\ Len(call.w) = 2 /\ call.rlen = 2
  /\ Len(nlog) = 1 /\ nlog[1].op = "8x8"
  /\ nlog[1].regaddr = 18 /\ nlog[1].w[1] = 52 /\ Len(nlog[1].w) = 3
  /\ res.nw = 2 /\ res.nr = 2

\* the master's own operation faults part-way
C37_WitnessFault ==
  /\ m = [t8 |-> TRUE, t16 |-> FALSE]
  /\ pc = "done" /\ call.op = "16x8" /\ res.err = NACKReceived
  /\ Len(nlog) = 1 /\ log = <<>>
  /\ nw = 2 /\ res.nw = 1

====
